---- MODULE Spec2Model ----
(***************************************************************************)
(* A model of the organelle Org-mode front end: the line-aware lexer       *)
(* (package lexer), the single-pass tree builder (package parser) and the  *)
(* String() renderers of the tree (package ast).                           *)
(*                                                                         *)
(* Text is a sequence of one-character strings.  Positions are 0-based, as *)
(* in the Go code; Slice(s, a, b) is Go's s[a:b].  Only one-byte (ASCII)    *)
(* characters occur in the inputs, so a byte offset is a rune offset.      *)
(***************************************************************************)
EXTENDS Integers, Sequences, FiniteSets, TLC

(***************************************************************************)
(* Characters and the string helpers of package strings that the code uses *)
(***************************************************************************)

\* the rune 0 that readChar stores at end of input
NUL == "NUL"
NL == "\n"

Digits == {"0", "1", "2", "3", "4", "5", "6", "7", "8", "9"}
LowerSeq == <<"a", "b", "c", "d", "e", "f", "g", "h", "i", "j", "k", "l", "m",
              "n", "o", "p", "q", "r", "s", "t", "u", "v", "w", "x", "y", "z">>
UpperSeq == <<"A", "B", "C", "D", "E", "F", "G", "H", "I", "J", "K", "L", "M",
              "N", "O", "P", "Q", "R", "S", "T", "U", "V", "W", "X", "Y", "Z">>
LowerSet == {LowerSeq[i] : i \in 1..26}
UpperSet == {UpperSeq[i] : i \in 1..26}
\* the cutset of readTableRow's ContainsAny
AlnumSet == LowerSet \cup UpperSet \cup Digits
\* unicode.IsSpace on the one-byte characters
SpaceSet == {" ", "\t", "\n", "\r"}

Min(a, b) == IF a < b THEN a ELSE b
Max(a, b) == IF a > b THEN a ELSE b

\* Go's s[a:b] on 0-based offsets; out of range it has no value (Go panics)
Slice(s, a, b) ==
    IF 0 <= a /\ a <= b /\ b <= Len(s) THEN SubSeq(s, a + 1, b) ELSE CHOOSE x \in {} : TRUE
\* Go's s[a:]
From(s, a) == Slice(s, a, Len(s))

ToUpperCh(c) ==
    IF c \in LowerSet THEN UpperSeq[CHOOSE i \in 1..26 : LowerSeq[i] = c] ELSE c
ToUpper(s) == [i \in 1..Len(s) |-> ToUpperCh(s[i])]

HasPrefix(s, p) == Len(s) >= Len(p) /\ SubSeq(s, 1, Len(p)) = p
HasSuffix(s, p) == Len(s) >= Len(p) /\ SubSeq(s, Len(s) - Len(p) + 1, Len(s)) = p
TrimPrefix(s, p) == IF HasPrefix(s, p) THEN From(s, Len(p)) ELSE s

\* number of leading / trailing characters of s that lie in cut
LeadIn(s, cut) ==
    IF \A i \in 1..Len(s) : s[i] \in cut THEN Len(s)
    ELSE (CHOOSE i \in 1..Len(s) : s[i] \notin cut /\ \A j \in 1..(i - 1) : s[j] \in cut) - 1
TrailIn(s, cut) ==
    IF \A i \in 1..Len(s) : s[i] \in cut THEN Len(s)
    ELSE Len(s) - (CHOOSE i \in 1..Len(s) : s[i] \notin cut /\ \A j \in (i + 1)..Len(s) : s[j] \in cut)

TrimLeftSet(s, cut) == From(s, LeadIn(s, cut))
TrimSet(s, cut) ==
    IF LeadIn(s, cut) = Len(s) THEN <<>>
    ELSE SubSeq(s, LeadIn(s, cut) + 1, Len(s) - TrailIn(s, cut))
TrimSpace(s) == TrimSet(s, SpaceSet)

ContainsAny(s, cut) == \E i \in 1..Len(s) : s[i] \in cut
Count(s, c) == Cardinality({i \in 1..Len(s) : s[i] = c})

\* strings.Index for a one-character separator: 0-based offset of the first c, or -1
IndexCh(s, c) ==
    IF \E i \in 1..Len(s) : s[i] = c
    THEN (CHOOSE i \in 1..Len(s) : s[i] = c /\ \A j \in 1..(i - 1) : s[j] # c) - 1
    ELSE -1

\* strings.Split(s, c) for a one-character separator
RECURSIVE Split(_, _)
Split(s, c) ==
    IF IndexCh(s, c) = -1 THEN <<s>>
    ELSE <<Slice(s, 0, IndexCh(s, c))>> \o Split(From(s, IndexCh(s, c) + 1), c)

\* strings.SplitN(s, c, 2)
SplitN2(s, c) ==
    IF IndexCh(s, c) = -1 THEN <<s>>
    ELSE <<Slice(s, 0, IndexCh(s, c)), From(s, IndexCh(s, c) + 1)>>

\* strings.Fields
RECURSIVE Fields(_)
Fields(s) ==
    LET t == TrimLeftSet(s, SpaceSet)
        n == IF \E i \in 1..Len(t) : t[i] \in SpaceSet
             THEN (CHOOSE i \in 1..Len(t) : t[i] \in SpaceSet /\ \A j \in 1..(i - 1) : t[j] \notin SpaceSet) - 1
             ELSE Len(t)
    IN IF t = <<>> THEN <<>> ELSE <<Slice(t, 0, n)>> \o Fields(From(t, n))

\* strings.Join(parts, sep)
RECURSIVE Join(_, _)
Join(parts, sep) ==
    IF parts = <<>> THEN <<>>
    ELSE IF Len(parts) = 1 THEN parts[1]
    ELSE parts[1] \o sep \o Join(Tail(parts), sep)

\* strings.Repeat(c, n)
Repeat(c, n) == [i \in 1..n |-> c]

(***************************************************************************)
(* package token                                                           *)
(***************************************************************************)

Token(type, literal, line, column) ==
    [Type |-> type, Literal |-> literal, Line |-> line, Column |-> column]
\* the zero value of token.Token
ZeroToken == Token("", <<>>, 0, 0)

(***************************************************************************)
(* package lexer                                                           *)
(***************************************************************************)

DefaultMaxInputSize == 10485760
DefaultMaxLineLength == 10000

\* Lexer.readChar
readChar(l) ==
    IF l.readPosition >= Len(l.input)
    THEN [l EXCEPT !.prevCh = l.ch, !.ch = NUL, !.position = l.readPosition,
                   !.readPosition = @ + 1, !.column = @ + 1]
    ELSE [l EXCEPT !.prevCh = l.ch, !.ch = l.input[l.readPosition + 1],
                   !.position = l.readPosition, !.readPosition = @ + 1,
                   !.column = IF l.ch = NL THEN 1 ELSE @ + 1]

\* Lexer.peekChar
peekChar(l) ==
    IF l.readPosition >= Len(l.input) THEN NUL ELSE l.input[l.readPosition + 1]

\* a lexer.New that refuses an input of exactly the maximum size
LexerNewAtLimit(input, maxInputSize, maxLineLength) ==
    readChar([input |-> input, position |-> 0, readPosition |-> 0,
              ch |-> NUL, prevCh |-> NUL, line |-> 1, column |-> 0,
              maxInputSize |-> maxInputSize, maxLineLength |-> maxLineLength,
              err |-> IF Len(input) >= maxInputSize THEN "ErrInputTooLarge" ELSE "nil"])

\* lexer.New: the options applied, the size check, the first readChar
LexerNew(input, maxInputSize, maxLineLength) ==
    readChar([input |-> input, position |-> 0, readPosition |-> 0,
              ch |-> NUL, prevCh |-> NUL, line |-> 1, column |-> 0,
              maxInputSize |-> maxInputSize, maxLineLength |-> maxLineLength,
              err |-> IF Len(input) > maxInputSize THEN "ErrInputTooLarge" ELSE "nil"])

\* the loop `for l.ch != '\n' && l.ch != 0 { l.readChar() }`
RECURSIVE skipLine(_)
skipLine(l) == IF l.ch # NL /\ l.ch # NUL THEN skipLine(readChar(l)) ELSE l

\* the loop `for l.ch == c { l.readChar() }` over a set of characters
RECURSIVE skipWhile(_, _)
skipWhile(l, cs) == IF l.ch \in cs THEN skipWhile(readChar(l), cs) ELSE l

\* the result of a read function: the token and the lexer after it
Res(tok, l) == [tok |-> tok, l |-> l]

\* a readStars that also takes the spaces after the stars
readStarsAndSpaces(l) == skipWhile(skipWhile(l, {"*"}), {" "})

\* Lexer.readStars: the lexer after the run of stars
readStars(l) == skipWhile(l, {"*"})

\* Lexer.readToEndOfLine: the lexer after the loop, with the line-length check
RECURSIVE readToEndOfLineLoop(_, _)
readToEndOfLineLoop(l, charCount) ==
    IF l.ch # NL /\ l.ch # NUL
    THEN IF charCount + 1 > l.maxLineLength
         THEN [l EXCEPT !.err = "ErrLineTooLong"]
         ELSE readToEndOfLineLoop(readChar(l), charCount + 1)
    ELSE l
readToEndOfLine(l) == readToEndOfLineLoop(l, 0)

\* a readTextLine that returns without reading
readTextLineStuck(l) == Res(Token("TEXT", <<>>, l.line, l.column), l)

\* Lexer.readTextLine
readTextLine(l) ==
    LET e == skipLine(l)
    IN Res(Token("TEXT", Slice(l.input, l.position, e.position), l.line, l.column), e)

\* Lexer.readOrgDirective
readOrgDirective(l) ==
    LET e == skipLine(l)
        literal == Slice(l.input, l.position, e.position)
        upperLiteral == ToUpper(literal)
        type == IF HasPrefix(upperLiteral, <<"#", "+", "B", "E", "G", "I", "N", "_">>)
                THEN "BLOCK_BEGIN"
                ELSE IF HasPrefix(upperLiteral, <<"#", "+", "E", "N", "D", "_">>)
                THEN "BLOCK_END"
                ELSE "KEYWORD"
    IN Res(Token(type, literal, l.line, l.column), e)

\* a readComment that returns the "#" alone
readCommentMark(l) == Res(Token("COMMENT", <<"#">>, l.line, l.column), readChar(l))

\* Lexer.readComment
readComment(l) ==
    LET e == skipLine(l)
    IN Res(Token("COMMENT", Slice(l.input, l.position, e.position), l.line, l.column), e)

\* Lexer.readDrawerOrProperty
readDrawerOrProperty(l) ==
    LET e == skipLine(l)
        literal == Slice(l.input, l.position, e.position)
        trimmed == TrimSpace(literal)
        type == IF ToUpper(trimmed) = <<":", "E", "N", "D", ":">>
                THEN "DRAWER_END"
                ELSE IF HasPrefix(trimmed, <<":">>) /\ HasSuffix(trimmed, <<":">>)
                        /\ Count(trimmed, ":") = 2
                THEN "DRAWER_BEGIN"
                ELSE "TEXT"
    IN Res(Token(type, literal, l.line, l.column), e)

\* Lexer.readDashLine
readDashLine(l) ==
    LET d == skipWhile(l, {"-"})
        dashCount == d.position - l.position
        e == skipLine(d)
    IN IF dashCount >= 5 /\ (d.ch = NL \/ d.ch = NUL)
       THEN Res(Token("TEXT", Slice(l.input, l.position, d.position), l.line, l.column), d)
       ELSE IF dashCount = 1 /\ d.ch = " "
       THEN Res(Token("LIST_ITEM", Slice(l.input, l.position, e.position), l.line, l.column), e)
       ELSE Res(Token("TEXT", Slice(l.input, l.position, e.position), l.line, l.column), e)

\* Lexer.readListItem
readListItem(l) ==
    LET e == skipLine(l)
    IN Res(Token("LIST_ITEM", Slice(l.input, l.position, e.position), l.line, l.column), e)

\* a tryReadOrderedListItem that reads the rest of the line from the cursor
\* it has after the digits
tryReadOrderedListItemRest(l) ==
    LET d == skipWhile(l, Digits)
        e == skipLine(d)
    IN IF d.ch \in {".", ")"} /\ peekChar(d) = " "
       THEN Res(Token("LIST_ITEM", Slice(l.input, l.position, e.position), l.line, l.column), e)
       ELSE Res(Token("TEXT", Slice(l.input, d.position, e.position), l.line, l.column), e)

\* Lexer.tryReadOrderedListItem
tryReadOrderedListItem(l) ==
    LET d == skipWhile(l, Digits)
        isItem == (d.ch = "." \/ d.ch = ")") /\ peekChar(d) = " "
        e == IF isItem THEN skipLine(readChar(d)) ELSE skipLine(d)
    IN Res(Token(IF isItem THEN "LIST_ITEM" ELSE "TEXT",
                 Slice(l.input, l.position, e.position), l.line, l.column), e)

\* Lexer.tryReadIndentedListItem
tryReadIndentedListItem(l) ==
    LET w == skipWhile(l, {" ", "\t"})
        bullet == (w.ch = "-" \/ w.ch = "+") /\ peekChar(w) = " "
        d == IF ~bullet /\ w.ch \in Digits THEN skipWhile(w, Digits) ELSE w
        ordered == ~bullet /\ w.ch \in Digits
                   /\ (d.ch = "." \/ d.ch = ")") /\ peekChar(d) = " "
        e == IF ordered THEN skipLine(readChar(d)) ELSE skipLine(d)
    IN Res(Token(IF bullet \/ ordered THEN "LIST_ITEM" ELSE "TEXT",
                 Slice(l.input, l.position, e.position), l.line, l.column), e)

\* a separator test that does not ask for a dash
isSeparatorRowNoDash(literal) ==
    LET trimmed == TrimSpace(literal)
    IN /\ HasPrefix(trimmed, <<"|">>)
       /\ HasSuffix(trimmed, <<"|">>)
       /\ ~ContainsAny(TrimSet(trimmed, {"|"}), AlnumSet)

\* the separator test of Lexer.readTableRow on the row's literal
isSeparatorRow(literal) ==
    LET trimmed == TrimSpace(literal)
    IN /\ HasPrefix(trimmed, <<"|">>)
       /\ HasSuffix(trimmed, <<"|">>)
       /\ ~ContainsAny(TrimSet(trimmed, {"|"}), AlnumSet)
       /\ Count(trimmed, "-") > 0

\* Lexer.readTableRow
readTableRow(l) ==
    LET e == skipLine(l)
        literal == Slice(l.input, l.position, e.position)
    IN Res(Token(IF isSeparatorRow(literal) THEN "TABLE_SEP" ELSE "TABLE_ROW",
                 literal, l.line, l.column), e)

\* Lexer.NextToken with the error already checked: the switch on l.ch
lexSwitch(l) ==
    LET isLineStart == l.position = 0 \/ l.prevCh = NL
    IN CASE l.ch = NUL -> Res(Token("EOF", <<>>, l.line, l.column), l)
         [] l.ch = NL ->
              Res(Token("NEWLINE", <<NL>>, l.line, l.column),
                  readChar([l EXCEPT !.line = @ + 1]))
         [] l.ch = "*" ->
              IF isLineStart
              THEN LET s == readStars(l)
                       stars == Slice(l.input, l.position, s.position)
                       e == readToEndOfLine(s)
                   IN IF s.ch = " "
                      THEN Res(Token("STARS", stars, l.line, l.column), s)
                      ELSE Res(Token("TEXT", stars \o Slice(l.input, s.position, e.position),
                                     l.line, l.column), e)
              ELSE readTextLine(l)
         [] l.ch = "#" ->
              IF isLineStart /\ peekChar(l) = "+" THEN readOrgDirective(l)
              ELSE IF isLineStart /\ peekChar(l) \in {" ", NL, NUL} THEN readComment(l)
              ELSE readTextLine(l)
         [] l.ch = ":" -> IF isLineStart THEN readDrawerOrProperty(l) ELSE readTextLine(l)
         [] l.ch = "-" -> IF isLineStart THEN readDashLine(l) ELSE readTextLine(l)
         [] l.ch = "+" ->
              IF isLineStart /\ peekChar(l) = " " THEN readListItem(l) ELSE readTextLine(l)
         [] l.ch = "|" -> IF isLineStart THEN readTableRow(l) ELSE readTextLine(l)
         [] l.ch \in {" ", "\t"} ->
              IF isLineStart THEN tryReadIndentedListItem(l) ELSE readTextLine(l)
         [] OTHER ->
              IF isLineStart /\ l.ch \in Digits THEN tryReadOrderedListItem(l)
              ELSE readTextLine(l)

\* a NextToken whose checkContext does not record ctx.Err()
NextTokenNoRecord(l, done) ==
    IF l.err # "nil" \/ done THEN Res(Token("EOF", <<>>, l.line, l.column), l)
    ELSE lexSwitch(l)

\* a NextToken that moves the cursor when it answers EOF at the end of the input
NextTokenEOFReads(l, done) ==
    IF l.err # "nil" THEN Res(Token("EOF", <<>>, l.line, l.column), l)
    ELSE IF done
    THEN Res(Token("EOF", <<>>, l.line, l.column), [l EXCEPT !.err = "Canceled"])
    ELSE IF l.ch = NUL THEN Res(Token("EOF", <<>>, l.line, l.column), readChar(l))
    ELSE lexSwitch(l)

\* Lexer.NextToken; done is the state of ctx.Done() at the call (checkContext)
NextToken(l, done) ==
    IF l.err # "nil" THEN Res(Token("EOF", <<>>, l.line, l.column), l)
    ELSE IF done
    THEN Res(Token("EOF", <<>>, l.line, l.column), [l EXCEPT !.err = "Canceled"])
    ELSE lexSwitch(l)

(***************************************************************************)
(* package ast: the nodes.  The tree lives in a heap (a sequence of node   *)
(* records); a node's id is its index, and Children / Items hold ids, as   *)
(* the Go slices hold pointers.                                            *)
(***************************************************************************)

BlankNode ==
    [type |-> "", isNil |-> FALSE, Token |-> ZeroToken,
     Level |-> 0, Keyword |-> <<>>, Priority |-> <<>>, Title |-> <<>>, Tags |-> <<>>,
     Children |-> <<>>,
     Content |-> <<>>, Inline |-> <<>>,
     Key |-> <<>>, Value |-> <<>>,
     Type |-> <<>>, Language |-> <<>>, Params |-> <<>>,
     Name |-> <<>>, Properties |-> <<>>,
     Ordered |-> FALSE, Items |-> <<>>,
     Indent |-> 0, Checkbox |-> "None",
     Rows |-> <<>>]

\* ast.InlineElement
Inline(type, content, url, children) ==
    [Type |-> type, Content |-> content, URL |-> url, Children |-> children]

(***************************************************************************)
(* package parser: the regular expressions, as the matchers they denote    *)
(***************************************************************************)

\* \s of Go's regexp: [\t\n\f\r ]
ReSpace == {" ", "\t", "\n", "\r"}
TagChars == AlnumSet \cup {"_", "@", "#", "%", ":"}

\* s, a suffix of the text, matches \s+:([a-zA-Z0-9_@#%:]+):\s*$ as a whole
tagsSuffixMatches(s) ==
    LET k == LeadIn(s, ReSpace)
        e == Len(s) - TrailIn(s, ReSpace)
    IN /\ k >= 1
       /\ e >= k + 3
       /\ s[k + 1] = ":"
       /\ s[e] = ":"
       /\ \A j \in (k + 2)..(e - 1) : s[j] \in TagChars

\* tagsRegex.FindStringSubmatch(text): 0-based start of the leftmost match, or -1
tagsMatchStart(text) ==
    IF \E i \in 0..(Len(text) - 1) : tagsSuffixMatches(From(text, i))
    THEN CHOOSE i \in 0..(Len(text) - 1) :
            /\ tagsSuffixMatches(From(text, i))
            /\ \A j \in 0..(i - 1) : ~tagsSuffixMatches(From(text, j))
    ELSE -1

\* group 1 of the tags match that starts at offset i
tagsGroup(text, i) ==
    LET s == From(text, i)
        k == LeadIn(s, ReSpace)
        e == Len(s) - TrailIn(s, ReSpace)
    IN SubSeq(s, k + 2, e - 1)

\* priorityRegex ^\[#([A-Z])\]\s* : length of the match at the start, or -1
priorityMatchLen(text) ==
    IF /\ Len(text) >= 4
       /\ text[1] = "[" /\ text[2] = "#" /\ text[3] \in UpperSet /\ text[4] = "]"
    THEN 4 + LeadIn(From(text, 4), ReSpace)
    ELSE -1

\* checkboxRegex ^\s*\[([ X\-])\]\s* : length of the match at the start, or -1
checkboxMatchLen(content) ==
    LET k == LeadIn(content, ReSpace)
    IN IF /\ Len(content) >= k + 3
          /\ content[k + 1] = "[" /\ content[k + 2] \in {" ", "X", "-"}
          /\ content[k + 3] = "]"
       THEN k + 3 + LeadIn(From(content, k + 3), ReSpace)
       ELSE -1

\* group 1 of the checkbox match
checkboxGroup(content) == content[LeadIn(content, ReSpace) + 2]

\* propertyRegex ^:([^:]+):\s*(.*)$ on a line without newline
propertyMatches(line) ==
    /\ Len(line) >= 3
    /\ line[1] = ":"
    /\ IndexCh(From(line, 1), ":") >= 1
propertyKey(line) == Slice(line, 1, 1 + IndexCh(From(line, 1), ":"))
propertyValue(line) ==
    TrimLeftSet(From(line, 2 + IndexCh(From(line, 1), ":")), ReSpace)

\* linkRegex \[\[([^\]]+)\](?:\[([^\]]+)\])?\] matched at offset 0 of s:
\* [end, url, desc] of the match, end = -1 when there is none at offset 0
linkMatch(s) ==
    LET none == [end |-> -1, url |-> <<>>, desc |-> <<>>]
        j == IndexCh(From(s, 2), "]")
        p == 2 + j
        r == From(s, p + 1)
        k == IF Len(r) >= 1 THEN IndexCh(From(r, 1), "]") ELSE -1
    IN IF ~(Len(s) >= 2 /\ s[1] = "[" /\ s[2] = "[") \/ j < 1 \/ Len(r) = 0 THEN none
       ELSE IF r[1] = "]"
       THEN [end |-> p + 2, url |-> Slice(s, 2, p), desc |-> <<>>]
       ELSE IF r[1] = "[" /\ k >= 1 /\ Len(r) >= k + 3 /\ r[k + 3] = "]"
       THEN [end |-> p + 1 + k + 3, url |-> Slice(s, 2, p), desc |-> Slice(r, 1, 1 + k)]
       ELSE none

(***************************************************************************)
(* package parser: the inline sub-parser                                   *)
(***************************************************************************)

maxDepth == 10

\* inlineMarkers
MarkerChars == {"*", "/", "~", "=", "+", "_"}
markerType(c) ==
    CASE c = "*" -> "bold" [] c = "/" -> "italic" [] c = "~" -> "code"
      [] c = "=" -> "verbatim" [] c = "+" -> "strikethrough" [] c = "_" -> "underline"
markerNestableAll(c) == c \in MarkerChars
markerNestable(c) == c \in {"*", "/", "+", "_"}

\* Parser.findClosingMarker
findClosingMarker(text, closer) == IndexCh(text, closer)

\* Parser.findNextMarker
findNextMarker(text) ==
    LET hit(i) == \/ text[i] \in MarkerChars
                  \/ (text[i] = "[" /\ i + 1 <= Len(text) /\ text[i + 1] = "[")
    IN IF \E i \in 1..Len(text) : hit(i)
       THEN (CHOOSE i \in 1..Len(text) : hit(i) /\ \A j \in 1..(i - 1) : ~hit(j)) - 1
       ELSE -1

RECURSIVE parseInlineElementsRecursive(_, _)
RECURSIVE inlineLoop(_, _)

\* one iteration of the loop of parseInlineElementsRecursive on a non-empty
\* remaining: the element it appends and the remaining text after it
inlineIter(remaining, depth) ==
    LET lm == IF Len(remaining) > 2 /\ remaining[1] = "[" /\ remaining[2] = "["
              THEN linkMatch(remaining) ELSE [end |-> -1, url |-> <<>>, desc |-> <<>>]
        isMarker == remaining[1] \in MarkerChars /\ Len(remaining) > 2
        end == IF isMarker THEN findClosingMarker(From(remaining, 1), remaining[1]) ELSE -1
        innerContent == Slice(remaining, 1, end + 1)
        nextMarker == findNextMarker(remaining)
    IN IF lm.end # -1
       THEN [elem |-> Inline("link", <<>>, lm.url,
                             IF lm.desc # <<>>
                             THEN parseInlineElementsRecursive(lm.desc, depth + 1)
                             ELSE <<>>),
             rest |-> From(remaining, lm.end)]
       ELSE IF isMarker /\ end # -1 /\ end > 0
       THEN [elem |-> IF markerNestable(remaining[1])
                      THEN Inline(markerType(remaining[1]), <<>>, <<>>,
                                  parseInlineElementsRecursive(innerContent, depth + 1))
                      ELSE Inline(markerType(remaining[1]), innerContent, <<>>, <<>>),
             rest |-> From(remaining, end + 2)]
       ELSE IF nextMarker = -1
       THEN [elem |-> Inline("text", remaining, <<>>, <<>>), rest |-> <<>>]
       ELSE IF nextMarker > 0
       THEN [elem |-> Inline("text", Slice(remaining, 0, nextMarker), <<>>, <<>>),
             rest |-> From(remaining, nextMarker)]
       ELSE [elem |-> Inline("text", <<remaining[1]>>, <<>>, <<>>),
             rest |-> From(remaining, 1)]

\* the loop `for len(remaining) > 0`
inlineLoop(remaining, depth) ==
    IF Len(remaining) = 0 THEN <<>>
    ELSE LET it == inlineIter(remaining, depth)
         IN <<it.elem>> \o inlineLoop(it.rest, depth)

\* a parseInlineElementsRecursive without the test of the depth
parseInlineElementsRecursiveNoCap(text, depth) == inlineLoop(text, depth)

\* Parser.parseInlineElementsRecursive
parseInlineElementsRecursive(text, depth) ==
    IF depth > maxDepth THEN <<Inline("text", text, <<>>, <<>>)>>
    ELSE inlineLoop(text, depth)

\* Parser.parseInlineElements
parseInlineElements(text) == parseInlineElementsRecursive(text, 0)

(***************************************************************************)
(* package parser: ParseTimestamp                                          *)
(***************************************************************************)

\* the character at 0-based offset p of text, NUL outside it
CharAt(text, p) == IF 0 <= p /\ p < Len(text) THEN text[p + 1] ELSE NUL

\* the number of characters of text from offset p on that lie in cut
RunFrom(text, p, cut) == IF p >= Len(text) THEN 0 ELSE LeadIn(From(text, p), cut)

\* a matcher position: the offset reached and the groups captured so far
TsAt(p) == [ok |-> TRUE, pos |-> p, date |-> <<>>, time |-> <<>>, mark |-> <<>>,
            val |-> <<>>, warn |-> <<>>]
TsFail == [ok |-> FALSE, pos |-> -1, date |-> <<>>, time |-> <<>>, mark |-> <<>>,
           val |-> <<>>, warn |-> <<>>]

\* [<\[](\d{4}-\d{2}-\d{2})
tsDate(text, k) ==
    LET shape == <<"d", "d", "d", "d", "-", "d", "d", "-", "d", "d">>
    IN IF /\ CharAt(text, k) \in {"<", "["}
          /\ \A i \in 1..10 : IF shape[i] = "d" THEN CharAt(text, k + i) \in Digits
                                                ELSE CharAt(text, k + i) = "-"
       THEN [TsAt(k + 11) EXCEPT !.date = Slice(text, k + 1, k + 11)]
       ELSE TsFail

\* The four optional groups start with \s+ and go on with a letter, a digit,
\* one of + and ., and - : at most one of them can take the white space at a
\* position, and a group that stops before the end of its run of letters or
\* digits is followed by a character no later part of the expression accepts.
\* So the leftmost-first match takes each group whole when it matches where
\* the matcher stands, and skips it otherwise.

\* (?:\s+[A-Za-z]+)?
tsDay(text, m) ==
    LET ws == RunFrom(text, m.pos, SpaceSet)
        n == RunFrom(text, m.pos + ws, LowerSet \cup UpperSet)
    IN IF ws >= 1 /\ n >= 1 THEN [m EXCEPT !.pos = m.pos + ws + n] ELSE m

\* (?:\s+(\d{1,2}:\d{2}))?
tsTime(text, m) ==
    LET ws == RunFrom(text, m.pos, SpaceSet)
        q == m.pos + ws
        n == IF CharAt(text, q) \in Digits /\ CharAt(text, q + 1) \in Digits THEN 2
             ELSE IF CharAt(text, q) \in Digits THEN 1 ELSE 0
    IN IF /\ ws >= 1 /\ n >= 1 /\ CharAt(text, q + n) = ":"
          /\ CharAt(text, q + n + 1) \in Digits /\ CharAt(text, q + n + 2) \in Digits
       THEN [m EXCEPT !.pos = q + n + 3, !.time = Slice(text, q, q + n + 3)]
       ELSE m

\* (?:\s+(\+\+?|\.?\+)(\d+[hdwmy]))?
tsRepeat(text, m) ==
    LET ws == RunFrom(text, m.pos, SpaceSet)
        q == m.pos + ws
        k == IF CharAt(text, q) = "+" /\ CharAt(text, q + 1) = "+" THEN 2
             ELSE IF CharAt(text, q) = "+" THEN 1
             ELSE IF CharAt(text, q) = "." /\ CharAt(text, q + 1) = "+" THEN 2 ELSE 0
        d == RunFrom(text, q + k, Digits)
    IN IF ws >= 1 /\ k >= 1 /\ d >= 1 /\ CharAt(text, q + k + d) \in {"h", "d", "w", "m", "y"}
       THEN [m EXCEPT !.pos = q + k + d + 1, !.mark = Slice(text, q, q + k),
                      !.val = Slice(text, q + k, q + k + d + 1)]
       ELSE m

\* (?:\s+(-\d+[hdwmy]))?
tsWarning(text, m) ==
    LET ws == RunFrom(text, m.pos, SpaceSet)
        q == m.pos + ws
        d == RunFrom(text, q + 1, Digits)
    IN IF /\ ws >= 1 /\ CharAt(text, q) = "-" /\ d >= 1
          /\ CharAt(text, q + 1 + d) \in {"h", "d", "w", "m", "y"}
       THEN [m EXCEPT !.pos = q + d + 2, !.warn = Slice(text, q, q + d + 2)]
       ELSE m

\* timestampRegex matched at offset k of text
tsMatchAt(text, k) ==
    LET date == tsDate(text, k)
        day == tsDay(text, date)
        time == tsTime(text, day)
        repeat == tsRepeat(text, time)
        m == tsWarning(text, repeat)
    IN IF date.ok /\ CharAt(text, m.pos) \in {">", "]"} THEN [m EXCEPT !.pos = m.pos + 1]
       ELSE TsFail

\* timestampRegex.FindStringSubmatch: the leftmost match, with its offset
tsFind(text) ==
    IF \E k \in 0..(Len(text) - 1) : tsMatchAt(text, k).ok
    THEN LET k == CHOOSE j \in 0..(Len(text) - 1) :
                      tsMatchAt(text, j).ok /\ \A i \in 0..(j - 1) : ~tsMatchAt(text, i).ok
         IN [tsMatchAt(text, k) EXCEPT !.ok = TRUE] @@ [start |-> k]
    ELSE TsFail @@ [start |-> -1]

\* ast.Timestamp; a nil *ast.Timestamp has isNil set
NilTimestamp ==
    [isNil |-> TRUE, Active |-> FALSE, Date |-> <<>>, Time |-> <<>>, Repeat |-> <<>>,
     Warning |-> <<>>]

\* the Timestamp built with the bracket at the place of the match
tsBuildAtMatch(text, m) ==
    IF ~m.ok THEN NilTimestamp
    ELSE [isNil |-> FALSE, Active |-> CharAt(text, m.start) = "<", Date |-> m.date,
          Time |-> m.time, Repeat |-> IF m.val # <<>> THEN m.mark \o m.val ELSE <<>>,
          Warning |-> m.warn]

\* a ParseTimestamp that reads the kind of bracket at the place of the match
ParseTimestampAtMatch(text) == tsBuildAtMatch(text, tsFind(text))

\* parser.ParseTimestamp after FindStringSubmatch gave m
tsBuild(text, m) ==
    IF ~m.ok THEN NilTimestamp
    ELSE [isNil |-> FALSE, Active |-> HasPrefix(text, <<"<">>), Date |-> m.date,
          Time |-> m.time, Repeat |-> IF m.val # <<>> THEN m.mark \o m.val ELSE <<>>,
          Warning |-> m.warn]

\* parser.ParseTimestamp
ParseTimestamp(text) == tsBuild(text, tsFind(text))

(***************************************************************************)
(* package parser: the per-construct builders, as functions of the token   *)
(***************************************************************************)

S_TODO == <<"T", "O", "D", "O">>
S_DONE == <<"D", "O", "N", "E">>
S_PROPERTIES == <<"P", "R", "O", "P", "E", "R", "T", "I", "E", "S">>

\* parseHeadline with the priority stripped before the keyword
headlineFieldsPriorityFirst(hl, literal) ==
    LET text0 == TrimSpace(literal)
        ts == tagsMatchStart(text0)
        tags == IF ts # -1 THEN Split(tagsGroup(text0, ts), ":") ELSE <<>>
        text1 == IF ts # -1 THEN TrimSpace(Slice(text0, 0, ts)) ELSE text0
        pm == priorityMatchLen(text1)
        text2 == IF pm # -1 THEN TrimSpace(From(text1, pm)) ELSE text1
        kw == IF HasPrefix(text2, S_TODO \o <<" ">>) \/ text2 = S_TODO THEN S_TODO
              ELSE IF HasPrefix(text2, S_DONE \o <<" ">>) \/ text2 = S_DONE THEN S_DONE
              ELSE <<>>
    IN [hl EXCEPT !.Tags = tags, !.Keyword = kw,
                  !.Priority = IF pm # -1 THEN <<text1[3]>> ELSE <<>>,
                  !.Title = IF HasPrefix(text2, S_TODO \o <<" ">>) \/ HasPrefix(text2, S_DONE \o <<" ">>)
                            THEN TrimSpace(From(text2, 5))
                            ELSE IF text2 = S_TODO \/ text2 = S_DONE THEN <<>>
                            ELSE text2]

\* Parser.parseHeadline, the part that strips tags, keyword and priority from
\* the literal of the TEXT token that follows the stars
headlineFields(hl, literal) ==
    LET text0 == TrimSpace(literal)
        ts == tagsMatchStart(text0)
        tags == IF ts # -1 THEN Split(tagsGroup(text0, ts), ":") ELSE <<>>
        text1 == IF ts # -1 THEN TrimSpace(Slice(text0, 0, ts)) ELSE text0
        kw == IF HasPrefix(text1, S_TODO \o <<" ">>) \/ text1 = S_TODO THEN S_TODO
              ELSE IF HasPrefix(text1, S_DONE \o <<" ">>) \/ text1 = S_DONE THEN S_DONE
              ELSE <<>>
        text2 == IF HasPrefix(text1, S_TODO \o <<" ">>) \/ HasPrefix(text1, S_DONE \o <<" ">>)
                 THEN TrimSpace(From(text1, 5))
                 ELSE IF text1 = S_TODO \/ text1 = S_DONE THEN <<>>
                 ELSE text1
        pm == priorityMatchLen(text2)
    IN [hl EXCEPT !.Tags = tags, !.Keyword = kw,
                  !.Priority = IF pm # -1 THEN <<text2[3]>> ELSE <<>>,
                  !.Title = IF pm # -1 THEN TrimSpace(From(text2, pm)) ELSE text2]

\* Parser.parseHeadline, the node built from the STARS token
headlineNode(tok) ==
    [BlankNode EXCEPT !.type = "Headline", !.Token = tok, !.Level = Len(tok.Literal)]

\* Parser.parseKeyword: the key of a directive literal
keywordKey(literal) == TrimPrefix(SplitN2(literal, ":")[1], <<"#", "+">>)

\* Parser.parseKeyword: the node, a nil *ast.Keyword when the key is empty
\* (parseNode returns it inside a non-nil ast.Node interface value)
parseKeyword(tok) ==
    LET parts == SplitN2(tok.Literal, ":")
    IN IF ~HasPrefix(tok.Literal, <<"#", "+">>) \/ keywordKey(tok.Literal) = <<>>
       THEN [BlankNode EXCEPT !.type = "Keyword", !.isNil = TRUE]
       ELSE [BlankNode EXCEPT !.type = "Keyword", !.Token = tok,
                              !.Key = keywordKey(tok.Literal),
                              !.Value = IF Len(parts) > 1 THEN TrimSpace(parts[2]) ELSE <<>>]

\* Parser.parseKeyword: the message it passes to addError, <<>> when none
keywordError(tok) ==
    IF ~HasPrefix(tok.Literal, <<"#", "+">>) THEN "invalid keyword format"
    ELSE IF keywordKey(tok.Literal) = <<>> THEN "empty keyword key"
    ELSE ""

\* Parser.parseBlock: the node built from the BLOCK_BEGIN token
blockHeader(tok) ==
    LET parts == Fields(From(tok.Literal, 8))
    IN [BlankNode EXCEPT !.type = "Block", !.Token = tok,
            !.Type = IF Len(parts) > 0 THEN ToUpper(parts[1]) ELSE <<>>,
            !.Language = IF Len(parts) > 1 THEN parts[2] ELSE <<>>,
            !.Params = IF Len(parts) > 2 THEN Join(SubSeq(parts, 3, Len(parts)), <<" ">>)
                       ELSE <<>>]

\* Parser.parseBlock: endMarker
endMarker(block) == <<"#", "+", "E", "N", "D", "_">> \o block.Type

\* Parser.parseBlock: the test that ends the block at the current token
closesBlock(block, tok) ==
    tok.Type = "BLOCK_END" /\ HasPrefix(ToUpper(tok.Literal), endMarker(block))

\* Parser.parseDrawer: the node built from the DRAWER_BEGIN token
drawerHeader(tok) ==
    [BlankNode EXCEPT !.type = "Drawer", !.Token = tok,
                      !.Name = TrimSet(TrimSpace(tok.Literal), {":"})]

\* Parser.parseDrawer: one body line of a PROPERTIES drawer
drawerProperty(drawer, line) ==
    IF propertyMatches(TrimSpace(line))
    THEN [drawer EXCEPT !.Properties =
             [k \in DOMAIN drawer.Properties \cup {propertyKey(TrimSpace(line))} |->
                 IF k = propertyKey(TrimSpace(line))
                 THEN propertyValue(TrimSpace(line))
                 ELSE drawer.Properties[k]]]
    ELSE drawer

\* Parser.getIndentation
RECURSIVE getIndentation(_)
getIndentation(s) ==
    IF s = <<>> THEN 0
    ELSE IF Head(s) = " " THEN 1 + getIndentation(Tail(s))
    ELSE IF Head(s) = "\t" THEN 2 + getIndentation(Tail(s))
    ELSE 0

\* Parser.parseListItem: the marker removed from the trimmed literal
stripMarker(content) ==
    LET d == LeadIn(content, Digits)
    IN IF HasPrefix(content, <<"-", " ">>) \/ HasPrefix(content, <<"+", " ">>)
       THEN From(content, 2)
       ELSE IF /\ d + 2 <= Len(content)
               /\ content[d + 1] \in {".", ")"}
               /\ content[d + 2] = " "
       THEN From(content, d + 2)
       ELSE content

\* Parser.parseListItem: the checkbox state of the text after the marker
checkboxState(content) ==
    IF checkboxMatchLen(content) = -1 THEN "None"
    ELSE CASE checkboxGroup(content) = " " -> "Unchecked"
           [] checkboxGroup(content) = "X" -> "Checked"
           [] checkboxGroup(content) = "-" -> "Partial"

\* Parser.parseListItem: the text after the marker with the checkbox removed
stripCheckbox(content) ==
    IF checkboxMatchLen(content) = -1 THEN content
    ELSE TrimSpace(From(content, checkboxMatchLen(content)))

\* Parser.parseListItem
parseListItem(tok) ==
    [BlankNode EXCEPT !.type = "ListItem", !.Token = tok,
                      !.Indent = getIndentation(tok.Literal),
                      !.Checkbox = checkboxState(stripMarker(TrimSpace(tok.Literal))),
                      !.Content = stripCheckbox(stripMarker(TrimSpace(tok.Literal)))]

\* Parser.parseList: list.Ordered from the first item's literal
listOrdered(literal) ==
    Len(TrimSpace(literal)) > 0 /\ TrimSpace(literal)[1] \in Digits

\* Parser.parseTableRow: the cells of a data row
rowCells(literal) ==
    LET pieces == Split(TrimSet(TrimSpace(literal), {"|"}), "|")
    IN [i \in 1..Len(pieces) |-> TrimSpace(pieces[i])]

\* Parser.parseTableRow
parseTableRow(tok) ==
    [Token |-> tok, Separator |-> tok.Type = "TABLE_SEP",
     Cells |-> IF tok.Type = "TABLE_SEP" THEN <<>> ELSE rowCells(tok.Literal)]

\* Parser.parseComment
parseComment(tok) ==
    [BlankNode EXCEPT !.type = "Comment", !.Token = tok,
        !.Content = IF HasPrefix(tok.Literal, <<"#", " ">>) THEN From(tok.Literal, 2)
                    ELSE TrimPrefix(tok.Literal, <<"#">>)]

\* Parser.parseParagraph
parseParagraph(tok) ==
    [BlankNode EXCEPT !.type = "Paragraph", !.Token = tok, !.Content = tok.Literal,
                      !.Inline = parseInlineElements(tok.Literal)]

(***************************************************************************)
(* package parser: the tree operations of ParseDocument and parseList      *)
(***************************************************************************)

Top(st) == st[Len(st)]
Pop(st) == SubSeq(st, 1, Len(st) - 1)

\* a test that keeps an open headline of equal level
popsHeadlineStrict(top, lv) == top.Level > lv

\* ParseDocument: the test that pops an open headline for a new one of level lv
popsHeadline(top, lv) == ~(top.Level < lv)

\* a loop that pops nothing
popStackNone(h, st, lv) == st

\* ParseDocument: `for len(stack) > 0 { ... }`, the open headlines popped
RECURSIVE popStack(_, _, _)
popStack(h, st, lv) ==
    IF Len(st) > 0 /\ popsHeadline(h[Top(st)], lv) THEN popStack(h, Pop(st), lv) ELSE st

\* a node appended to the document whatever the stack holds
appendChildToRoot(h, d, st, id) == [nodes |-> h, doc |-> Append(d, id)]

\* ParseDocument: node id appended to the children of the stack top, or of the
\* document when the stack is empty
appendChild(h, d, st, id) ==
    IF Len(st) > 0
    THEN [nodes |-> [h EXCEPT ![Top(st)].Children = Append(@, id)], doc |-> d]
    ELSE [nodes |-> h, doc |-> Append(d, id)]

\* ParseDocument: the body of `if node != nil` for the node just put at the
\* end of heap h; the heap, the document's children and the stack after it
attach(h, d, st) ==
    LET id == Len(h)
        st2 == IF h[id].type = "Headline" THEN popStack(h, st, h[id].Level) ELSE st
        a == appendChild(h, d, st2, id)
    IN [nodes |-> a.nodes, doc |-> a.doc,
        stack |-> IF h[id].type = "Headline" THEN Append(st2, id) ELSE st]

\* a test that keeps an open item of equal indentation
popsItemStrict(top, item) == top.Indent > item.Indent

\* buildNestedList: the test that pops an open item for the next item
popsItem(top, item) == top.Indent >= item.Indent

RECURSIVE popItems(_, _, _)
popItems(h, st, item) ==
    IF Len(st) > 0 /\ popsItem(h[Top(st)], h[item]) THEN popItems(h, Pop(st), item) ELSE st

\* buildNestedList: the nested list that item joins under parent: the parent's
\* last child when that is a list, else a new list appended to the parent
nestUnder(h, parent, item) ==
    LET kids == h[parent].Children
        reuse == Len(kids) > 0 /\ h[kids[Len(kids)]].type = "List"
        lst == IF reuse THEN kids[Len(kids)] ELSE Len(h) + 1
        newList == [BlankNode EXCEPT !.type = "List", !.Token = h[item].Token,
                       !.Ordered = /\ h[item].Indent > 0
                                   /\ Len(h[item].Content) > 0
                                   /\ h[item].Content[1] \in Digits]
        h2 == IF reuse THEN h
              ELSE [Append(h, newList) EXCEPT ![parent].Children = Append(@, lst)]
    IN [h2 EXCEPT ![lst].Items = Append(@, item)]

\* buildNestedList: the loop over items[i..]; the heap and the top-level items
RECURSIVE buildLoop(_, _, _, _, _)
buildLoop(h, items, i, result, st) ==
    IF i > Len(items) THEN [nodes |-> h, result |-> result]
    ELSE LET st2 == popItems(h, st, items[i])
         IN IF Len(st2) = 0
            THEN buildLoop(h, items, i + 1, Append(result, items[i]), Append(st2, items[i]))
            ELSE buildLoop(nestUnder(h, Top(st2), items[i]), items, i + 1, result,
                           Append(st2, items[i]))

\* Parser.buildNestedList on the item ids
buildNestedList(h, items) == buildLoop(h, items, 1, <<>>, <<>>)

\* Parser.parseList after its loop: the items put in the heap, nested, and the
\* list node put at the end of the heap
finishList(h, list, items) ==
    LET n == Len(h)
        ids == [i \in 1..Len(items) |-> n + i]
        b == buildNestedList(h \o items, ids)
    IN Append(b.nodes, [list EXCEPT !.Items = b.result])

(***************************************************************************)
(* package ast: the String() methods, on the heap                          *)
(***************************************************************************)

DigitSeq == <<"0", "1", "2", "3", "4", "5", "6", "7", "8", "9">>

\* fmt.Sprintf("%d", n) for n >= 0
RECURSIVE Itoa(_)
Itoa(n) == IF n < 10 THEN <<DigitSeq[n + 1]>> ELSE Itoa(n \div 10) \o <<DigitSeq[(n % 10) + 1]>>

\* the concatenation of the strings of a sequence
RECURSIVE Concat(_)
Concat(parts) == IF parts = <<>> THEN <<>> ELSE Head(parts) \o Concat(Tail(parts))

\* Headline.String up to the newline
headlineLine(n) ==
    Repeat("*", n.Level) \o <<" ">>
    \o (IF n.Keyword # <<>> THEN n.Keyword \o <<" ">> ELSE <<>>)
    \o (IF n.Priority # <<>> THEN <<"[", "#">> \o n.Priority \o <<"]", " ">> ELSE <<>>)
    \o n.Title
    \o (IF Len(n.Tags) > 0 THEN <<" ", ":">> \o Join(n.Tags, <<":">>) \o <<":">> ELSE <<>>)

\* Keyword.String
keywordString(n) == <<"#", "+">> \o n.Key \o <<":", " ">> \o n.Value \o <<NL>>

\* Block.String
blockString(n) ==
    <<"#", "+", "B", "E", "G", "I", "N", "_">> \o n.Type
    \o (IF n.Language # <<>> THEN <<" ">> \o n.Language ELSE <<>>)
    \o (IF n.Params # <<>> THEN <<" ">> \o n.Params ELSE <<>>)
    \o <<NL>>
    \o n.Content
    \o (IF ~HasSuffix(n.Content, <<NL>>) /\ n.Content # <<>> THEN <<NL>> ELSE <<>>)
    \o <<"#", "+", "E", "N", "D", "_">> \o n.Type \o <<NL>>

\* Drawer.String; order is the order in which `range d.Properties` yields the keys
drawerString(n, order) ==
    <<":">> \o n.Name \o <<":", NL>>
    \o (IF n.Name = S_PROPERTIES
        THEN Concat([i \in 1..Len(order) |->
                        <<":">> \o order[i] \o <<":", " ">> \o n.Properties[order[i]] \o <<NL>>])
        ELSE n.Content)
    \o <<":", "E", "N", "D", ":", NL>>

\* TableRow.String
rowString(row) ==
    IF row.Separator THEN <<"|">> \o Repeat("-", 10) \o <<"|", NL>>
    ELSE <<"|", " ">> \o Join(row.Cells, <<" ", "|", " ">>) \o <<" ", "|", NL>>

\* ListItem.String up to its children
itemLine(n) ==
    (CASE n.Checkbox = "Unchecked" -> <<"[", " ", "]", " ">>
       [] n.Checkbox = "Checked" -> <<"[", "X", "]", " ">>
       [] n.Checkbox = "Partial" -> <<"[", "-", "]", " ">>
       [] OTHER -> <<>>)
    \o n.Content \o <<NL>>

\* Node.String of the node id of heap h; ord[d] is the key order of drawer d
RECURSIVE NodeString(_, _, _)
NodeString(h, ord, id) ==
    LET n == h[id]
        kids(ids) == Concat([i \in 1..Len(ids) |-> NodeString(h, ord, ids[i])])
    IN CASE n.type = "Headline" -> headlineLine(n) \o <<NL>> \o kids(n.Children)
         [] n.type = "Paragraph" -> n.Content \o <<NL>>
         [] n.type = "Keyword" -> keywordString(n)
         [] n.type = "Block" -> blockString(n)
         [] n.type = "Drawer" -> drawerString(n, ord[id])
         [] n.type = "List" ->
              Concat([i \in 1..Len(n.Items) |->
                        (IF n.Ordered THEN Itoa(i) \o <<".", " ">> ELSE <<"-", " ">>)
                        \o NodeString(h, ord, n.Items[i])])
         [] n.type = "ListItem" ->
              itemLine(n)
              \o Concat([i \in 1..Len(n.Children) |->
                           <<" ", " ">> \o NodeString(h, ord, n.Children[i])])
         [] n.type = "Table" -> Concat([i \in 1..Len(n.Rows) |-> rowString(n.Rows[i])])
         [] n.type = "Comment" -> <<"#", " ">> \o n.Content \o <<NL>>

\* Document.String
DocString(h, ord, d) == Concat([i \in 1..Len(d) |-> NodeString(h, ord, d[i])])

\* the orders in which a map with key set S can be ranged over
KeyOrders(S) ==
    {o \in [1..Cardinality(S) -> S] : \A i, j \in 1..Cardinality(S) : i # j => o[i] # o[j]}

\* the key orders of all the drawers of heap h
DrawerOrders(h) ==
    LET ds == {id \in 1..Len(h) : h[id].type = "Drawer"}
        all == UNION {KeyOrders(DOMAIN h[d].Properties) : d \in ds}
    IN {f \in [ds -> all] : \A d \in ds : f[d] \in KeyOrders(DOMAIN h[d].Properties)}

\* rendering dereferences a nil *ast.Keyword
RenderPanics(h) == \E id \in 1..Len(h) : h[id].isNil

\* the structural shape of the nodes ids: their types and nesting
RECURSIVE Shape(_, _)
Shape(h, ids) ==
    [i \in 1..Len(ids) |->
        LET n == h[ids[i]]
        IN [type |-> n.type,
            kids |-> CASE n.type \in {"Headline", "ListItem"} -> Shape(h, n.Children)
                       [] n.type = "List" -> Shape(h, n.Items)
                       [] n.type = "Table" ->
                            [r \in 1..Len(n.Rows) |-> [type |-> "TableRow", kids |-> <<>>]]
                       [] OTHER -> <<>>]]

(***************************************************************************)
(* The state of one lexer / parser pair and of the host's context          *)
(***************************************************************************)

VARIABLES
    lex,        \* the Lexer
    opts,       \* which of lexer and parser were given the host's context
    ctxDone,    \* the host's context is cancelled
    curToken,   \* Parser.curToken
    peekToken,  \* Parser.peekToken
    errors,     \* Parser.errors
    nodes,      \* the heap of ast nodes
    doc,        \* Document.Children of the document being built
    stack,      \* ParseDocument's stack of open headlines
    loc,        \* the locals of the sub-builder that is running
    pc,         \* where the parser is
    calls,      \* number of NextToken calls made on lex so far
    pass,       \* 1: the parse of the input; 2: the parse of the rendered tree
    shape1,     \* in pass 2: the shape of the tree that was rendered
    sched,      \* which lexer / parser pair is running, and the pairs that are not
    stamp,      \* the last call of ParseTimestamp by the host: its text and result
    inl         \* a call of parseInlineElementsRecursive: text, depth and result

vars == <<lex, opts, ctxDone, curToken, peekToken, errors, nodes, doc, stack, loc, pc, calls,
          pass, shape1, sched, stamp, inl>>

NoLoc == [node |-> BlankNode, lines |-> <<>>, items |-> <<>>]

\* one lexer / parser pair runs, and the host made no other
Alone == [running |-> 1, saved |-> <<>>]

\* the host has not called ParseTimestamp
NoStamp == [called |-> FALSE, text |-> <<>>, ts |-> NilTimestamp]

\* no call of parseInlineElementsRecursive is followed on its own
NoInline == [called |-> FALSE, text |-> <<>>, depth |-> 0, elems |-> <<>>]

\* a diagnostic made by Parser.addError: "line <n>: <msg>"
LineError(tok, msg) == [hasLine |-> TRUE, line |-> tok.Line, msg |-> msg]
\* a diagnostic appended as it is (parser.New)
RawError(msg) == [hasLine |-> FALSE, line |-> 0, msg |-> msg]

\* Parser.nextToken
Advance ==
    LET r == NextToken(lex, opts.lexCtx /\ ctxDone)
    IN /\ curToken' = peekToken
       /\ peekToken' = r.tok
       /\ lex' = r.l
       /\ calls' = calls + 1

\* parser.New up to its first nextToken
ParserNew1 ==
    /\ pc = "new1"
    /\ errors' = IF lex.err # "nil" THEN Append(errors, RawError(lex.err)) ELSE errors
    /\ Advance
    /\ pc' = "new2"
    /\ UNCHANGED <<inl, sched, stamp, pass, shape1, opts, ctxDone, nodes, doc, stack, loc>>

\* parser.New, its second nextToken
ParserNew2 ==
    /\ pc = "new2"
    /\ Advance
    /\ pc' = "loop"
    /\ UNCHANGED <<inl, sched, stamp, pass, shape1, opts, ctxDone, errors, nodes, doc, stack, loc>>

\* ParseDocument: the loop condition fails
LoopExit ==
    /\ pc = "loop"
    /\ curToken.Type = "EOF"
    /\ pc' = "done"
    /\ UNCHANGED <<inl, sched, stamp, pass, shape1, lex, opts, ctxDone, curToken, peekToken, errors, nodes, doc, stack, loc, calls>>

\* ParseDocument: Parser.checkContext breaks the loop
LoopCancelled ==
    /\ pc = "loop"
    /\ curToken.Type # "EOF"
    /\ opts.parCtx /\ ctxDone
    /\ errors' = Append(errors, LineError(curToken, "parsing cancelled: context canceled"))
    /\ pc' = "done"
    /\ UNCHANGED <<inl, sched, stamp, pass, shape1, lex, opts, ctxDone, curToken, peekToken, nodes, doc, stack, loc, calls>>

\* ParseDocument: the lexer's error breaks the loop
LoopLexerError ==
    /\ pc = "loop"
    /\ curToken.Type # "EOF"
    /\ ~(opts.parCtx /\ ctxDone)
    /\ lex.err # "nil"
    /\ errors' = Append(errors, LineError(curToken, "lexer error: " \o lex.err))
    /\ pc' = "done"
    /\ UNCHANGED <<inl, sched, stamp, pass, shape1, lex, opts, ctxDone, curToken, peekToken, nodes, doc, stack, loc, calls>>

\* ParseDocument reaches parseNode
Dispatching ==
    /\ pc = "loop"
    /\ curToken.Type # "EOF"
    /\ ~(opts.parCtx /\ ctxDone)
    /\ lex.err = "nil"

\* ParseDocument: the node at the end of heap h attached, then the loop's
\* nextToken
AttachLastAndAdvance(h) ==
    LET a == attach(h, doc, stack)
    IN /\ nodes' = a.nodes
       /\ doc' = a.doc
       /\ stack' = a.stack
       /\ Advance
       /\ pc' = "loop"
       /\ loc' = NoLoc

AttachAndAdvance(node) == AttachLastAndAdvance(Append(nodes, node))

\* parseHeadline up to its nextToken (or, with no TEXT token following, whole)
DispatchHeadline ==
    /\ Dispatching
    /\ curToken.Type = "STARS"
    /\ IF peekToken.Type = "TEXT"
       THEN /\ loc' = [NoLoc EXCEPT !.node = headlineNode(curToken)]
            /\ Advance
            /\ pc' = "hltext"
            /\ UNCHANGED <<nodes, doc, stack>>
       ELSE AttachAndAdvance(headlineNode(curToken))
    /\ UNCHANGED <<inl, sched, stamp, pass, shape1, opts, ctxDone, errors>>

\* parseHeadline on the TEXT token, and the headline placed
HeadlineText ==
    /\ pc = "hltext"
    /\ AttachAndAdvance(headlineFields(loc.node, curToken.Literal))
    /\ UNCHANGED <<inl, sched, stamp, pass, shape1, opts, ctxDone, errors>>

\* parseKeyword, parseComment, parseParagraph
DispatchLeaf ==
    /\ Dispatching
    /\ curToken.Type \in {"KEYWORD", "COMMENT", "TEXT"}
    /\ AttachAndAdvance(CASE curToken.Type = "KEYWORD" -> parseKeyword(curToken)
                          [] curToken.Type = "COMMENT" -> parseComment(curToken)
                          [] curToken.Type = "TEXT" -> parseParagraph(curToken))
    /\ errors' = IF curToken.Type = "KEYWORD" /\ keywordError(curToken) # ""
                 THEN Append(errors, LineError(curToken, keywordError(curToken)))
                 ELSE errors
    /\ UNCHANGED <<inl, sched, stamp, pass, shape1, opts, ctxDone>>

\* parseNode returns nil: NEWLINE and the token types without a builder
DispatchSkip ==
    /\ Dispatching
    /\ curToken.Type \notin {"STARS", "KEYWORD", "COMMENT", "TEXT", "BLOCK_BEGIN",
                             "DRAWER_BEGIN", "LIST_ITEM", "TABLE_ROW", "TABLE_SEP"}
    /\ Advance
    /\ UNCHANGED <<inl, sched, stamp, pass, shape1, opts, ctxDone, errors, nodes, doc, stack, loc, pc>>

\* parseBlock up to `p.nextToken() // Move past BEGIN line`
BlockBegin ==
    /\ Dispatching
    /\ curToken.Type = "BLOCK_BEGIN"
    /\ loc' = [NoLoc EXCEPT !.node = blockHeader(curToken)]
    /\ Advance
    /\ pc' = "block"
    /\ UNCHANGED <<inl, sched, stamp, pass, shape1, opts, ctxDone, errors, nodes, doc, stack>>

\* parseBlock: one iteration of its loop, or its end
BlockStep ==
    /\ pc = "block"
    /\ IF curToken.Type = "EOF" \/ closesBlock(loc.node, curToken)
       THEN AttachAndAdvance([loc.node EXCEPT !.Content = Join(loc.lines, <<NL>>)])
       ELSE /\ loc' = IF curToken.Type = "NEWLINE" THEN loc
                      ELSE [loc EXCEPT !.lines = Append(@, curToken.Literal)]
            /\ Advance
            /\ UNCHANGED <<nodes, doc, stack, pc>>
    /\ UNCHANGED <<inl, sched, stamp, pass, shape1, opts, ctxDone, errors>>

\* parseDrawer up to `p.nextToken() // Move past drawer start`
DrawerBegin ==
    /\ Dispatching
    /\ curToken.Type = "DRAWER_BEGIN"
    /\ loc' = [NoLoc EXCEPT !.node = drawerHeader(curToken)]
    /\ Advance
    /\ pc' = "drawer"
    /\ UNCHANGED <<inl, sched, stamp, pass, shape1, opts, ctxDone, errors, nodes, doc, stack>>

\* parseDrawer: one iteration of its loop, or its end
DrawerStep ==
    /\ pc = "drawer"
    /\ IF curToken.Type = "EOF" \/ curToken.Type = "DRAWER_END"
       THEN AttachAndAdvance([loc.node EXCEPT !.Content = Join(loc.lines, <<NL>>)])
       ELSE /\ loc' = IF curToken.Type = "NEWLINE" THEN loc
                      ELSE IF loc.node.Name = S_PROPERTIES
                      THEN [loc EXCEPT !.node = drawerProperty(@, curToken.Literal)]
                      ELSE [loc EXCEPT !.lines = Append(@, curToken.Literal)]
            /\ Advance
            /\ UNCHANGED <<nodes, doc, stack, pc>>
    /\ UNCHANGED <<inl, sched, stamp, pass, shape1, opts, ctxDone, errors>>

\* parseList: one iteration of its loop from the LIST_ITEM token, up to the
\* next nextToken; list and items are the list node and the items so far
ListIter(list, items) ==
    LET items2 == Append(items, parseListItem(curToken))
    IN IF peekToken.Type = "NEWLINE"
       THEN /\ loc' = [NoLoc EXCEPT !.node = list, !.items = items2]
            /\ Advance
            /\ pc' = "listnl"
            /\ UNCHANGED <<nodes, doc, stack>>
       ELSE IF peekToken.Type # "LIST_ITEM"
       THEN AttachLastAndAdvance(finishList(nodes, list, items2))
       ELSE /\ loc' = [NoLoc EXCEPT !.node = list, !.items = items2]
            /\ Advance
            /\ pc' = "list"
            /\ UNCHANGED <<nodes, doc, stack>>

\* parseList from its start
DispatchList ==
    /\ Dispatching
    /\ curToken.Type = "LIST_ITEM"
    /\ ListIter([BlankNode EXCEPT !.type = "List", !.Token = curToken,
                                  !.Ordered = listOrdered(curToken.Literal)], <<>>)
    /\ UNCHANGED <<inl, sched, stamp, pass, shape1, opts, ctxDone, errors>>

\* parseList: a later iteration of its loop
ListStep ==
    /\ pc = "list"
    /\ ListIter(loc.node, loc.items)
    /\ UNCHANGED <<inl, sched, stamp, pass, shape1, opts, ctxDone, errors>>

\* parseList: after the NEWLINE that followed an item was consumed
ListAfterNewline ==
    /\ pc = "listnl"
    /\ IF peekToken.Type # "LIST_ITEM"
       THEN AttachLastAndAdvance(finishList(nodes, loc.node, loc.items))
       ELSE /\ Advance
            /\ pc' = "list"
            /\ UNCHANGED <<nodes, doc, stack, loc>>
    /\ UNCHANGED <<inl, sched, stamp, pass, shape1, opts, ctxDone, errors>>

\* parseTable: one iteration of its loop from a row token, up to the next
\* nextToken
TableIter(table) ==
    LET table2 == [table EXCEPT !.Rows = Append(@, parseTableRow(curToken))]
    IN IF peekToken.Type = "NEWLINE"
       THEN /\ loc' = [NoLoc EXCEPT !.node = table2]
            /\ Advance
            /\ pc' = "tablenl"
            /\ UNCHANGED <<nodes, doc, stack>>
       ELSE IF peekToken.Type \notin {"TABLE_ROW", "TABLE_SEP"}
       THEN AttachAndAdvance(table2)
       ELSE /\ loc' = [NoLoc EXCEPT !.node = table2]
            /\ Advance
            /\ pc' = "table"
            /\ UNCHANGED <<nodes, doc, stack>>

\* parseTable from its start
DispatchTable ==
    /\ Dispatching
    /\ curToken.Type \in {"TABLE_ROW", "TABLE_SEP"}
    /\ TableIter([BlankNode EXCEPT !.type = "Table", !.Token = curToken])
    /\ UNCHANGED <<inl, sched, stamp, pass, shape1, opts, ctxDone, errors>>

\* parseTable: a later iteration of its loop
TableStep ==
    /\ pc = "table"
    /\ TableIter(loc.node)
    /\ UNCHANGED <<inl, sched, stamp, pass, shape1, opts, ctxDone, errors>>

\* parseTable: after the NEWLINE that followed a row was consumed
TableAfterNewline ==
    /\ pc = "tablenl"
    /\ IF peekToken.Type \notin {"TABLE_ROW", "TABLE_SEP"}
       THEN AttachAndAdvance(loc.node)
       ELSE /\ Advance
            /\ pc' = "table"
            /\ UNCHANGED <<nodes, doc, stack, loc>>
    /\ UNCHANGED <<inl, sched, stamp, pass, shape1, opts, ctxDone, errors>>

\* the host cancels the context it gave to the lexer, the parser or both
Cancel ==
    /\ ~ctxDone
    /\ opts.lexCtx \/ opts.parCtx
    /\ pc # "done"
    /\ ctxDone' = TRUE
    /\ UNCHANGED <<inl, sched, stamp, pass, shape1, lex, opts, curToken, peekToken, errors, nodes, doc, stack, loc, pc,
                   calls>>

\* the host renders the finished document with Document.String and parses the
\* text again with a new lexer and a new parser
Render ==
    /\ pc = "done"
    /\ pass = 1
    /\ IF RenderPanics(nodes)
       THEN /\ pc' = "panic"
            /\ UNCHANGED <<lex, opts, ctxDone, curToken, peekToken, errors, nodes, doc, stack,
                           loc, calls, pass, shape1, sched, stamp, inl>>
       ELSE /\ \E ord \in DrawerOrders(nodes) :
                  lex' = LexerNew(DocString(nodes, ord, doc), DefaultMaxInputSize,
                                  DefaultMaxLineLength)
            /\ shape1' = Shape(nodes, doc)
            /\ pass' = 2
            /\ opts' = [lexCtx |-> FALSE, parCtx |-> FALSE]
            /\ ctxDone' = FALSE
            /\ curToken' = ZeroToken
            /\ peekToken' = ZeroToken
            /\ errors' = <<>>
            /\ nodes' = <<>>
            /\ doc' = <<>>
            /\ stack' = <<>>
            /\ loc' = NoLoc
            /\ pc' = "new1"
            /\ calls' = 0
            /\ stamp' = NoStamp
            /\ UNCHANGED <<sched, inl>>

\* the host calls ParseTimestamp on the text of a paragraph of the returned tree
HostTimestamp ==
    /\ pc = "done"
    /\ \E id \in 1..Len(nodes) :
          /\ nodes[id].type = "Paragraph"
          /\ stamp' = [called |-> TRUE, text |-> nodes[id].Content,
                       ts |-> ParseTimestamp(nodes[id].Content)]
    /\ UNCHANGED <<inl, sched, pass, shape1, lex, opts, ctxDone, curToken, peekToken, errors,
                   nodes, doc, stack, loc, pc, calls>>

(***************************************************************************)
(* The inputs                                                              *)
(***************************************************************************)

\* lines joined into a text, each followed by a newline
RECURSIVE Text(_)
Text(lines) == IF lines = <<>> THEN <<>> ELSE Head(lines) \o <<NL>> \o Text(Tail(lines))

\* the sequences of length 0..n over the set S
RECURSIVE SeqsUpTo(_, _)
SeqsUpTo(S, n) ==
    IF n = 0 THEN {<<>>}
    ELSE LET shorter == SeqsUpTo(S, n - 1)
         IN shorter \cup {Append(s, x) : s \in shorter, x \in S}

\* bounds of the input families
MaxHeadlines == 3
MaxItems == 3
MaxBody == 2
MaxRowChars == 3
\* the small limits given to WithMaxInputSize and WithMaxLineLength
SmallInputSize == 6
SmallLineLength == 2

\* headlines of levels 1..3 and a paragraph line
HeadlineLines == {<<"*", " ", "a">>, <<"*", "*", " ", "b">>,
                  <<"*", "*", "*", " ", "c">>, <<"t">>}
HeadlineDocs == {Text(ls) : ls \in SeqsUpTo(HeadlineLines, MaxHeadlines)}

\* list items of indentation 0, 2 and 4, and an ordered one
ListLines == {<<"-", " ", "a">>, <<" ", " ", "-", " ", "b">>,
              <<" ", " ", " ", " ", "-", " ", "c">>, <<" ", " ", "1", ".", " ", "d">>}
ListDocs == {Text(ls) : ls \in SeqsUpTo(ListLines, MaxItems) \ {<<>>}}

\* one construct of every kind, under no, one or two headlines, followed by
\* nothing or by a paragraph
Prefixes == {<<>>, <<<<"*", " ", "a">>>>,
             <<<<"*", " ", "a">>, <<"*", "*", " ", "b">>>>,
             <<<<"*", "*", " ", "b">>, <<"*", " ", "a">>>>}
Constructs == {<<<<"#", "+", "T", ":", " ", "v">>>>, <<<<"#", "+", ":", " ", "v">>>>,
               <<<<"#", " ", "c">>>>, <<<<"t", " ", "*", "b", "*">>>>,
               <<<<"#", "+", "B", "E", "G", "I", "N", "_", "S", "R", "C", " ", "g", "o">>, <<"x">>, <<"#", "+", "E", "N", "D", "_", "S", "R", "C">>>>,
               <<<<":", "P", "R", "O", "P", "E", "R", "T", "I", "E", "S", ":">>, <<":", "K", ":", " ", "v">>, <<":", "E", "N", "D", ":">>>>,
               <<<<":", "D", ":">>, <<"x">>, <<":", "E", "N", "D", ":">>>>,
               <<<<"-", " ", "a">>, <<" ", " ", "-", " ", "b">>>>,
               <<<<"|", "a", "|", "-", "|">>, <<"|", "-", "+", "-", "|">>>>,
               <<<<"-", "-", "-", "-", "-">>>>, <<<<>>>>}
Suffixes == {<<>>, <<<<"t", " ", "*", "b", "*">>>>}
ConstructDocs == {Text(p \o c \o x) : p \in Prefixes, c \in Constructs, x \in Suffixes}

\* one list item: a marker, a checkbox or none, the rest of the line
ItemMarkers == {<<"-", " ">>, <<"+", " ">>, <<"1", ".", " ">>, <<"2", ")", " ">>,
                <<" ", " ", "-", " ">>}
ItemBoxes == {<<>>, <<"[", " ", "]">>, <<"[", "X", "]">>, <<"[", "-", "]">>,
              <<"[", "x", "]">>, <<" ", "[", "X", "]">>, <<"[", "X">>}
ItemRests == {<<>>, <<" ", "a">>, <<"a">>}
ItemDocs == {m \o b \o r \o <<NL>> : m \in ItemMarkers, b \in ItemBoxes, r \in ItemRests}

\* a block: a begin line, body lines, an end line or none
BlockBegins == {<<"#", "+", "B", "E", "G", "I", "N", "_", "S", "R", "C">>,
                <<"#", "+", "b", "e", "g", "i", "n", "_", "q", "t", " ", "x">>}
BodyLines == {<<"x">>, <<>>, <<"*", " ", "a">>,
              <<"#", "+", "E", "N", "D", "_", "Q", "T">>,
              <<"#", "+", "E", "N", "D", "_", "S", "R", "C", "X">>}
BlockEnds == {<<>>, <<<<"#", "+", "E", "N", "D", "_", "S", "R", "C">>>>,
                    <<<<"#", "+", "e", "n", "d", "_", "s", "r", "c">>>>}
BlockDocs == {Text(<<b>> \o body \o e) :
                b \in BlockBegins, body \in SeqsUpTo(BodyLines, MaxBody), e \in BlockEnds}

\* one table line: a bar and up to MaxRowChars more characters
RowChars == {"-", "+", "a", "|", " "}
RowDocs == {<<"|">> \o r \o <<NL>> : r \in SeqsUpTo(RowChars, MaxRowChars)}

\* lines around the small line-length limit; only some end with a newline
LimitDocs == {<<"*", "*", "b">>, <<"*", "*", "b", "c", NL>>,
              <<"*", "*", "b", "c", "d", NL, "t", NL>>,
              <<"*", "b", "c", NL, "*", " ", "a", NL>>, <<"a", "b", "c", "d", NL>>,
              <<"*", " ", "a", "b", "c", NL>>, <<"-", " ", "a", "b", "c", NL>>,
              <<"#", "+", "B", "E", "G", "I", "N", "_", "S", "R", "C", NL,
                "*", "*", "b", "c", "d", NL>>}

\* one line of text with inline markers
MaxInline == 5
InlineChars == {"*", "=", "a"}
InlineDocs ==
    {t \o <<NL>> : t \in SeqsUpTo(InlineChars, MaxInline) \ {<<>>}}
    \cup {<<"*", "/", "a", "/", "*", NL>>, <<"/", "a", "/", " ", "+", "b", "+", NL>>,
          <<"_", "~", "a", "~", "_", "=", NL>>}

\* one line of text around a timestamp: text before it, the opening bracket,
\* the date, the optional parts, the closing bracket, text after it
StampBefore == {<<>>, <<"x", " ">>, <<"<">>, <<"[">>}
StampDates == {<<"2", "0", "2", "4", "-", "0", "1", "-", "1", "5">>, <<"2", "0", "2", "4", "-", "1", "-", "1", "5">>}
StampParts == {<<>>, <<" ", "M", "o", "n">>, <<" ", "1", "0", ":", "3", "0">>,
               <<" ", "M", "o", "n", " ", "9", ":", "0", "5">>,
               <<" ", "+", "1", "w", " ", "-", "3", "d">>, <<" ", "M", "o", "n", "1">>}
StampAfter == {<<>>, <<" ", "y">>}
StampDocs ==
    {b \o <<o>> \o d \o p \o <<c>> \o a \o <<NL>> :
        b \in StampBefore, o \in {"<", "["}, d \in StampDates, p \in StampParts,
        c \in {">", "]"}, a \in StampAfter}

\* headline lines with titles that look like other constructs, and texts
\* whose last line has no newline
StarRests == {<<" ">>, <<" ", "a">>, <<" ", " ", "a">>,
              <<" ", "-", " ", "x">>, <<" ", "|", "a", "|">>, <<" ", "#", "+", "T", ":", " ", "v">>,
              <<" ", ":", "D", ":">>, <<" ", "*", " ", "a">>, <<" ", "1", ".", " ", "x">>}
StarLines == {s \o r : s \in {<<"*">>, <<"*", "*">>}, r \in StarRests}
TokenDocs ==
    {l \o <<NL>> : l \in StarLines} \cup StarLines
    \cup {SubSeq(d, 1, Len(d) - 1) : d \in HeadlineDocs \ {<<>>}}

\* list items with blank lines between them
BlankListDocs ==
    {<<"-", " ", "a", NL, NL, "-", " ", "b", NL>>,
     <<"-", " ", "a", NL, NL, NL, "-", " ", "b", NL>>,
     <<"-", " ", "a", NL, "-", " ", "b", NL, NL, "-", " ", "c", NL>>,
     <<"-", " ", "a", NL, NL, "t", NL>>,
     <<"-", " ", "a", NL, NL, " ", " ", "-", " ", "b", NL>>,
     <<"-", " ", "a", NL, NL, "-", " ", "b", NL, NL, "-", " ", "c", NL>>}

\* a drawer: a begin line, body lines, an end line or none
DrawerNames == {<<":", "P", "R", "O", "P", "E", "R", "T", "I", "E", "S", ":">>,
                <<":", "p", "r", "o", "p", "e", "r", "t", "i", "e", "s", ":">>,
                <<":", "D", ":">>}
DrawerBodies == {<<>>,
                 <<<<":", "K", ":", " ", "v">>>>,
                 <<<<":", "K", ":">>>>,
                 <<<<":", "K", ":", " ", "v">>, <<":", "K", ":", " ", "w">>>>,
                 <<<<":", "K", ":", " ", "v">>, <<":", "K", ":">>>>,
                 <<<<":", "K", ":", " ", "v">>, <<":", "J", ":", " ", "w">>>>,
                 <<<<"x">>, <<":", "K", ":", " ", "v">>>>,
                 <<<<"y">>, <<"x">>>>,
                 <<<<"x">>, <<>>, <<"y">>>>,
                 <<<<"*", " ", "a">>>>,
                 <<<<"*", " ", ":", "J", ":", " ", "w">>>>,
                 <<<<"#", "+", "T", ":", " ", "v">>, <<"-", " ", "a">>>>}
DrawerEnds == {<<>>, <<<<":", "E", "N", "D", ":">>>>, <<<<":", "e", "n", "d", ":">>, <<"*", " ", "a">>>>}
DrawerDocs == {Text(<<n>> \o b \o e) : n \in DrawerNames, b \in DrawerBodies, e \in DrawerEnds}

\* a directive line, after a headline or not, before a text line or not
KeywordLines == {<<"#", "+", "T", ":", " ", "v">>, <<"#", "+", ":", " ", "v">>,
                 <<"#", "+", ":">>, <<"#", "+", "T", ":">>,
                 <<"#", "+", "A", " ", "b", ":", " ", " ", "v", ":", "w", " ">>}
KeywordDocs == {Text(p \o <<k>> \o x) :
                  p \in {<<>>, <<<<"*", " ", "a">>>>}, k \in KeywordLines,
                  x \in {<<>>, <<<<"t">>>>, <<<<"#", "+", ":", " ", "v">>>>}}

\* headline texts with tags, keyword and priority, present or not, in and out of order
HeadlineTexts == {<<"T", "O", "D", "O", " ", "x">>, <<"D", "O", "N", "E">>,
                  <<"T", "O", "D", "O">>, <<"T", "O", "D", "O", "x">>,
                  <<"t", "o", "d", "o", " ", "x">>, <<"[", "#", "A", "]", " ", "x">>,
                  <<"[", "#", "a", "]", " ", "x">>, <<"[", "#", "A", "]", "x">>,
                  <<"[", "#", "A", "]">>,
                  <<"T", "O", "D", "O", " ", "[", "#", "B", "]", " ", "x", " ", ":", "t", ":", "u", ":">>,
                  <<"[", "#", "A", "]", " ", "T", "O", "D", "O", " ", "x">>,
                  <<"[", "#", "A", "]", " ", "D", "O", "N", "E">>, <<"x", " ", ":", "t", ":">>,
                  <<":", "t", ":">>, <<"x", ":", "t", ":">>,
                  <<"T", "O", "D", "O", " ", ":", "t", ":">>,
                  <<"x", " ", ":", "t", ":", " ", "y">>,
                  <<"x", " ", ":", "a", ":", " ", ":", "b", ":">>,
                  <<"D", "O", "N", "E", " ", " ", "[", "#", "C", "]", " ", " ", "x", " ", " ", ":", "a", "_", "1", ":">>,
                  <<"x", " ", ":", "t", "-", "1", ":">>,
                  <<"[", "#", "A", "]", " ", ":", "t", ":">>,
                  <<"T", "O", "D", "O", " ", "T", "O", "D", "O", " ", "x">>,
                  <<"T", "O", "D", "O", " ", "D", "O", "N", "E">>,
                  <<"x", " ", " ", "[", "#", "A", "]", " ", "y">>}
TitleDocs == {<<"*", " ">> \o t \o <<NL>> : t \in HeadlineTexts}

\* lines that begin like a list item, a rule or a drawer marker and are none
FallbackLines == {<<"1">>, <<"1", "2">>, <<"1", ".">>, <<"1", ".", "x">>, <<"1", ")", "x">>,
                  <<"1", " ", ".">>, <<"1", "2", "a">>, <<" ">>, <<" ", " ", "x">>,
                  <<" ", "-">>, <<" ", "-", "x">>, <<" ", " ", "1", ".">>, <<" ", "1", "x">>,
                  <<"\t", "+">>, <<" ", "*", " ", "a">>, <<"-", "-">>, <<"-", "x">>, <<"-">>,
                  <<"-", "-", "-", "-">>, <<"-", "-", "-", "-", "-", "x">>,
                  <<"-", "-", "-", "-", "-", "-", " ">>, <<":">>, <<":", "a">>,
                  <<":", "a", ":", " ", "b">>, <<":", ":">>, <<":", "a", ":", "b", ":">>}
FallbackDocs == FallbackLines \cup {l \o <<NL>> : l \in FallbackLines}
                \cup {<<"t", NL>> \o l \o <<NL>> : l \in FallbackLines}

\* lists whose items mix bullets, numbers and texts that begin with a digit
OrderedDocs == {<<"-", " ", "a", NL, " ", " ", "1", ".", " ", "d", NL>>,
                <<"-", " ", "a", NL, " ", " ", "-", " ", "2", "x", NL>>,
                <<"1", ".", " ", "a", NL, " ", " ", "-", " ", "b", NL>>,
                <<"1", ".", " ", "a", NL, " ", " ", "2", ".", " ", "b", NL>>,
                <<"1", ".", " ", "a", NL, "-", " ", "b", NL>>,
                <<"-", " ", "a", NL, "1", ".", " ", "b", NL>>, <<"1", ".", " ", "2", NL>>,
                <<"-", " ", "1", NL>>,
                <<" ", " ", "1", ".", " ", "a", NL, " ", " ", " ", " ", "-", " ", "b", NL>>,
                <<"-", " ", "a", NL, " ", " ", "-", " ", "b", NL, " ", " ", "1", ".", " ", "c", NL>>}

\* the host gives its context to the lexer, to the parser or to both
Both == [lexCtx |-> TRUE, parCtx |-> TRUE]
Options == {Both, [lexCtx |-> TRUE, parCtx |-> FALSE], [lexCtx |-> FALSE, parCtx |-> TRUE]}

\* the host gives no context
NoContext == [lexCtx |-> FALSE, parCtx |-> FALSE]

Config(input, maxInputSize, maxLineLength, o) ==
    [input |-> input, maxInputSize |-> maxInputSize, maxLineLength |-> maxLineLength,
     opts |-> o]

Configs ==
    {Config(i, DefaultMaxInputSize, DefaultMaxLineLength, Both) :
        i \in ListDocs \cup ConstructDocs \cup ItemDocs \cup BlockDocs \cup RowDocs}
    \cup {Config(i, DefaultMaxInputSize, DefaultMaxLineLength, o) :
            i \in HeadlineDocs, o \in Options}
    \cup {Config(i, SmallInputSize, DefaultMaxLineLength, Both) : i \in HeadlineDocs}
    \cup {Config(i, DefaultMaxInputSize, SmallLineLength, Both) : i \in LimitDocs}
    \cup {Config(i, DefaultMaxInputSize, DefaultMaxLineLength, NoContext) :
            i \in InlineDocs \cup StampDocs \cup TokenDocs \cup BlankListDocs
                  \cup DrawerDocs \cup KeywordDocs \cup TitleDocs
                  \cup FallbackDocs \cup OrderedDocs}

Init ==
    /\ \E c \in Configs : /\ lex = LexerNew(c.input, c.maxInputSize, c.maxLineLength)
                           /\ opts = c.opts
    /\ ctxDone = FALSE
    /\ curToken = ZeroToken
    /\ peekToken = ZeroToken
    /\ errors = <<>>
    /\ nodes = <<>>
    /\ doc = <<>>
    /\ stack = <<>>
    /\ loc = NoLoc
    /\ pc = "new1"
    /\ calls = 0
    /\ pass = 1
    /\ shape1 = <<>>
    /\ sched = Alone
    /\ stamp = NoStamp
    /\ inl = NoInline

Next ==
    \/ ParserNew1 \/ ParserNew2
    \/ LoopExit \/ LoopCancelled \/ LoopLexerError
    \/ DispatchHeadline \/ HeadlineText \/ DispatchLeaf \/ DispatchSkip
    \/ BlockBegin \/ BlockStep \/ DrawerBegin \/ DrawerStep
    \/ DispatchList \/ ListStep \/ ListAfterNewline
    \/ DispatchTable \/ TableStep \/ TableAfterNewline
    \/ Cancel \/ Render \/ HostTimestamp

Spec == Init /\ [][Next]_vars

(***************************************************************************)
(* Several lexer / parser pairs                                            *)
(*                                                                         *)
(* All the state of a parse is held in the fields of one Lexer and of one  *)
(* Parser (and in the context the host gave them); the packages have no    *)
(* variable that is written after initialisation.  The variables above are *)
(* the fields of the pair that takes the next step; sched.saved holds the  *)
(* fields of the other pairs.  Switch hands the processor to another pair  *)
(* between two steps.                                                      *)
(***************************************************************************)

\* the fields of the running pair
RunState ==
    [lex |-> lex, opts |-> opts, ctxDone |-> ctxDone, curToken |-> curToken,
     peekToken |-> peekToken, errors |-> errors, nodes |-> nodes, doc |-> doc,
     stack |-> stack, loc |-> loc, pc |-> pc, calls |-> calls]

\* a pair whose diagnostics live in a list shared with the other pairs
LoadRunKeepErrors(s) ==
    /\ lex' = s.lex /\ opts' = s.opts /\ ctxDone' = s.ctxDone
    /\ curToken' = s.curToken /\ peekToken' = s.peekToken
    /\ errors' = errors
    /\ nodes' = s.nodes /\ doc' = s.doc /\ stack' = s.stack
    /\ loc' = s.loc /\ pc' = s.pc /\ calls' = s.calls

\* the pair s takes the processor: the next step works on its fields
LoadRun(s) ==
    /\ lex' = s.lex /\ opts' = s.opts /\ ctxDone' = s.ctxDone
    /\ curToken' = s.curToken /\ peekToken' = s.peekToken
    /\ errors' = s.errors
    /\ nodes' = s.nodes /\ doc' = s.doc /\ stack' = s.stack
    /\ loc' = s.loc /\ pc' = s.pc /\ calls' = s.calls

\* the running pair starts with the fields of s
LoadRunInit(s) ==
    /\ lex = s.lex /\ opts = s.opts /\ ctxDone = s.ctxDone
    /\ curToken = s.curToken /\ peekToken = s.peekToken
    /\ errors = s.errors
    /\ nodes = s.nodes /\ doc = s.doc /\ stack = s.stack
    /\ loc = s.loc /\ pc = s.pc /\ calls = s.calls

\* the pair the host makes for configuration c, before parser.New runs
NewRun(c) ==
    [lex |-> LexerNew(c.input, c.maxInputSize, c.maxLineLength), opts |-> c.opts,
     ctxDone |-> FALSE, curToken |-> ZeroToken, peekToken |-> ZeroToken, errors |-> <<>>,
     nodes |-> <<>>, doc |-> <<>>, stack |-> <<>>, loc |-> NoLoc, pc |-> "new1", calls |-> 0]

\* the fields of pair k
RunOf(k) == IF k = sched.running THEN RunState ELSE sched.saved[k]

\* pair 1 runs alone to its end; after it the other pairs run interleaved
Switch(k) ==
    /\ k \in DOMAIN sched.saved
    /\ k # 1
    /\ sched.running = 1 => pc = "done"
    /\ LoadRun(sched.saved[k])
    /\ sched' = [running |-> k,
                 saved |-> [j \in (DOMAIN sched.saved \ {k}) \cup {sched.running} |->
                              IF j = sched.running THEN RunState ELSE sched.saved[j]]]
    /\ UNCHANGED <<pass, shape1, stamp, inl>>

PairInputs ==
    {Text(<<<<"*", " ", "a">>, <<"t">>>>),
     Text(<<<<"#", "+", "B", "E", "G", "I", "N", "_", "S", "R", "C">>, <<"x">>,
            <<"#", "+", "E", "N", "D", "_", "S", "R", "C">>>>),
     Text(<<<<":", "D", ":">>, <<"x">>, <<":", "E", "N", "D", ":">>>>),
     Text(<<<<"-", " ", "a">>, <<"-", " ", "b">>>>),
     Text(<<<<"|", "a", "|">>, <<"|", "b", "|">>>>),
     Text(<<<<"#", "+", ":", " ", "v">>>>)}

PairConfigs ==
    {Config(i, DefaultMaxInputSize, DefaultMaxLineLength, Both) : i \in PairInputs}
    \cup {Config(<<"*", "*", "b", "c", "d", NL, "t", NL>>, DefaultMaxInputSize,
                 SmallLineLength, Both)}

\* pair 1 parses the input of pair 2 with no context and alone; pairs 2 and 3
\* parse their inputs with interleaved steps
PairInit ==
    /\ \E c \in PairConfigs, d \in PairConfigs :
          /\ LoadRunInit(NewRun([c EXCEPT !.opts = NoContext]))
          /\ sched = [running |-> 1, saved |-> [k \in {2, 3} |-> IF k = 2 THEN NewRun(c)
                                                                          ELSE NewRun(d)]]
    /\ pass = 1
    /\ shape1 = <<>>
    /\ stamp = NoStamp
    /\ inl = NoInline

PairNext ==
    \/ ParserNew1 \/ ParserNew2
    \/ LoopExit \/ LoopCancelled \/ LoopLexerError
    \/ DispatchHeadline \/ HeadlineText \/ DispatchLeaf \/ DispatchSkip
    \/ BlockBegin \/ BlockStep \/ DrawerBegin \/ DrawerStep
    \/ DispatchList \/ ListStep \/ ListAfterNewline
    \/ DispatchTable \/ TableStep \/ TableAfterNewline
    \/ Cancel
    \/ \E k \in {2, 3} : Switch(k)

PairSpec == PairInit /\ [][PairNext]_vars

(***************************************************************************)
(* parseInlineElementsRecursive as a function of its text and its depth    *)
(***************************************************************************)

SpanTexts == {<<"a">>, <<"*", "a", "*">>, <<"*", "/", "a", "/", "*">>,
              <<"*", "/", "+", "a", "+", "/", "*">>,
              <<"*", "/", "+", "_", "a", "_", "+", "/", "*">>,
              <<"[", "[", "u", "]", "[", "*", "a", "*", "]", "]">>,
              <<"*", "[", "[", "u", "]", "[", "/", "a", "/", "]", "]", "*">>,
              <<"=", "*", "a", "*", "=">>, <<"*", "a", "*", " ", "/", "b", "/">>, <<"*", "a">>,
              <<"_", "[", "[", "u", "]", "]", "_", " ", "b">>,
              <<"*", "/", "+", "_", "[", "[", "u", "]", "[", "a", "]", "]", "_", "+", "/", "*">>}
SpanDepths == 0..(maxDepth + 1)

\* no parse runs; the call of parseInlineElementsRecursive(text, depth) is to come
InlineInit ==
    /\ LoadRunInit(NewRun(Config(<<>>, DefaultMaxInputSize, DefaultMaxLineLength, NoContext)))
    /\ pass = 1
    /\ shape1 = <<>>
    /\ sched = Alone
    /\ stamp = NoStamp
    /\ \E t \in SpanTexts, d \in SpanDepths :
          inl = [called |-> FALSE, text |-> t, depth |-> d, elems |-> <<>>]

\* the call returns
InlineCall ==
    /\ ~inl.called
    /\ inl' = [inl EXCEPT !.called = TRUE,
                          !.elems = parseInlineElementsRecursive(inl.text, inl.depth)]
    /\ UNCHANGED <<lex, opts, ctxDone, curToken, peekToken, errors, nodes, doc, stack, loc, pc,
                   calls, pass, shape1, sched, stamp>>

InlineNext == InlineCall

InlineSpec == InlineInit /\ [][InlineNext]_vars

(***************************************************************************)
(* Reading the tree                                                        *)
(***************************************************************************)

Range(s) == {s[i] : i \in 1..Len(s)}
MaxOf(S) == CHOOSE x \in S : \A y \in S : y <= x

\* the number of places of sequence s that hold x
Places(s, x) == Cardinality({i \in 1..Len(s) : s[i] = x})

\* the parents of node id: the nodes that list it as child or item, and 0 for
\* the document when it lists id as a child
Parents(id) ==
    (IF id \in Range(doc) THEN {0} ELSE {})
    \cup {p \in 1..Len(nodes) : id \in Range(nodes[p].Children) \cup Range(nodes[p].Items)}

\* how many times node id is listed as a child or item anywhere in the tree
Occurrences(id) ==
    LET RECURSIVE Sum(_)
        Sum(p) == IF p = 0 THEN 0
                  ELSE Places(nodes[p].Children, id) + Places(nodes[p].Items, id) + Sum(p - 1)
    IN Places(doc, id) + Sum(Len(nodes))

HeadlineIds == {i \in 1..Len(nodes) : nodes[i].type = "Headline"}
ItemIds == {i \in 1..Len(nodes) : nodes[i].type = "ListItem"}
ListIds == {i \in 1..Len(nodes) : nodes[i].type = "List"}

\* a first parse that ran to the end of its input without limit or cancellation
CompleteParse == pc = "done" /\ pass = 1 /\ ~ctxDone /\ lex.err = "nil"

(***************************************************************************)
(* C1: totality and progress                                               *)
(***************************************************************************)

\* a step of the parser that does not end the parse: the two calls of
\* parser.New and every iteration of the dispatch loop and of the block, drawer,
\* list and table loops
LoopIteration ==
    /\ pc # "done"
    /\ pc' # "done"
    /\ ctxDone' = ctxDone

\* the step takes one token from the lexer, and the lexer either moves over at
\* least one character or answers with end-of-input
ConsumesToken ==
    /\ calls' = calls + 1
    /\ curToken' = peekToken
    /\ lex'.position > lex.position \/ peekToken'.Type = "EOF"

\* every step of the inline scanner over a text leaves a shorter text
InlineProgress(text) ==
    \A k \in 0..(Len(text) - 1) :
        Len(inlineIter(From(text, k), 0).rest) < Len(text) - k

\* C1: for every input and configuration ParseDocument returns without a fault:
\* every iteration of the dispatch loop and of the block, drawer, list and
\* table loops takes a token, and on every call the lexer moves forward or
\* answers end-of-input, so that the number of NextToken calls never exceeds
\* the length of the input plus the two end-of-input tokens the parser looks
\* at; the inline scanner shortens the text on every iteration; the loop is
\* left at end-of-input or with a diagnostic.
C1_Totality ==
    /\ [][LoopIteration => ConsumesToken]_vars
    /\ [](calls <= Len(lex.input) + 2)
    /\ [](curToken.Type = "TEXT" => InlineProgress(curToken.Literal))
    /\ [](pc = "done" => curToken.Type = "EOF" \/ errors # <<>>)

\* a parse of a text with several constructs has returned
C1_Witness ==
    /\ pc = "done"
    /\ pass = 1
    /\ calls >= 6
    /\ \E i, j, k \in 1..Len(nodes) :
          /\ nodes[i].type = "Headline"
          /\ nodes[j].type = "Block"
          /\ nodes[k].type = "Paragraph" /\ Len(nodes[k].Inline) > 1

(***************************************************************************)
(* C2, C3: the headline hierarchy                                          *)
(***************************************************************************)

\* the headlines before headline i whose level is strictly smaller
SmallerBefore(i) == {j \in HeadlineIds : j < i /\ nodes[j].Level < nodes[i].Level}
\* the headlines before headline i whose level is equal
EqualBefore(i) == {j \in HeadlineIds : j < i /\ nodes[j].Level = nodes[i].Level}

\* the levels of the headline lines of a text of headlines and paragraphs
RECURSIVE LineLevels(_)
LineLevels(lines) ==
    IF lines = <<>> THEN <<>>
    ELSE LET stars == LeadIn(Head(lines), {"*"})
         IN (IF stars > 0 /\ stars < Len(Head(lines)) /\ Head(lines)[stars + 1] = " "
             THEN <<stars>> ELSE <<>>)
            \o LineLevels(Tail(lines))

\* the levels of the Headline nodes, in the order they were made
RECURSIVE NodeLevels(_)
NodeLevels(n) ==
    IF n = 0 THEN <<>>
    ELSE NodeLevels(n - 1) \o (IF nodes[n].type = "Headline" THEN <<nodes[n].Level>> ELSE <<>>)

\* C2: every headline is a child (once) of the nearest preceding headline of
\* strictly smaller level, and of the document root when there is none; the
\* headlines of the tree are the headline lines of the input, level by level.
C2_HeadlineParent ==
    /\ \A i \in HeadlineIds :
          /\ Parents(i) = {IF SmallerBefore(i) = {} THEN 0 ELSE MaxOf(SmallerBefore(i))}
          /\ Occurrences(i) = 1
    /\ CompleteParse /\ lex.input \in HeadlineDocs
          => NodeLevels(Len(nodes)) = LineLevels(Split(lex.input, NL))

\* three headlines parsed: the last one finds its parent two headlines back
C2_Witness ==
    /\ CompleteParse
    /\ \E i, j, k \in HeadlineIds :
          /\ i < j /\ j < k
          /\ nodes[i].Level < nodes[k].Level
          /\ nodes[j].Level >= nodes[k].Level
          /\ Parents(k) = {i}

\* C3 as stated: every headline with a preceding headline of equal level has
\* the same parent as the nearest of them.
C3_SiblingOfEqual ==
    \A i \in HeadlineIds :
        EqualBefore(i) # {} => Parents(i) = Parents(MaxOf(EqualBefore(i)))

\* C3 amended: every headline with a preceding headline of equal level has the
\* same parent as the nearest of them, provided no headline of strictly
\* smaller level lies between the two.
C3_SiblingOfEqualUnbroken ==
    \A i \in HeadlineIds :
        (/\ EqualBefore(i) # {}
         /\ \A k \in SmallerBefore(i) : k < MaxOf(EqualBefore(i)))
        => Parents(i) = Parents(MaxOf(EqualBefore(i)))

\* two headlines of equal level with a deeper one between them are siblings
C3_Witness ==
    /\ CompleteParse
    /\ \E i, j, k \in HeadlineIds :
          /\ i < j /\ j < k
          /\ nodes[i].Level = nodes[k].Level
          /\ nodes[j].Level > nodes[k].Level
          /\ Parents(k) = Parents(i)

(***************************************************************************)
(* C4: where the other nodes go                                            *)
(***************************************************************************)

\* the node types the dispatch loop builds besides headlines
DispatchTypes == {"Paragraph", "Keyword", "Block", "Drawer", "List", "Table", "Comment"}

\* a list that buildNestedList hung under a list item
IsNestedList(i) == \E p \in Parents(i) : p # 0 /\ nodes[p].type = "ListItem"

\* the nodes the dispatch loop attached, headlines apart
DispatchedIds ==
    {i \in 1..Len(nodes) : nodes[i].type \in DispatchTypes /\ ~IsNestedList(i)}

\* the most recent headline made before node i, or 0 for the document
RecentHeadline(i) ==
    IF {j \in HeadlineIds : j < i} = {} THEN 0 ELSE MaxOf({j \in HeadlineIds : j < i})

\* C4: the top of the open-headline stack is the most recent headline, and
\* every paragraph, keyword, block, drawer, list, table and comment built by
\* the dispatch loop is a child of exactly that headline, or of the document
\* root when no headline came before it, and is listed once in the tree.
C4_AttachToTop ==
    /\ IF HeadlineIds = {} THEN stack = <<>>
       ELSE stack # <<>> /\ Top(stack) = MaxOf(HeadlineIds)
    /\ \A i \in DispatchedIds :
          /\ Parents(i) = {RecentHeadline(i)}
          /\ Occurrences(i) = 1

\* a block placed under a level-1 headline that closed a level-2 headline
C4_Witness ==
    /\ CompleteParse
    /\ \E i \in DispatchedIds, j, k \in HeadlineIds :
          /\ k < j /\ j < i
          /\ nodes[i].type = "Block"
          /\ nodes[k].Level = 2 /\ nodes[j].Level = 1
          /\ Parents(i) = {j}

(***************************************************************************)
(* C5: list nesting                                                        *)
(***************************************************************************)

\* the items of the run of item i: the items made by the same parseList
Run(i) == {j \in ItemIds : \A k \in Min(i, j)..Max(i, j) : k \in ItemIds}

\* the items of the run before item i whose indentation is strictly smaller
LessIndented(i) == {j \in Run(i) : j < i /\ nodes[j].Indent < nodes[i].Indent}

\* the lists that hold item i
ListsOf(i) == {l \in ListIds : i \in Range(nodes[l].Items)}

\* C5: every item is held once by one list; that list is a nested list under
\* the nearest preceding item of the run with strictly smaller indentation, or
\* the list of the run itself when the run has no such item; the items of
\* every list are in input order.
C5_NestByIndent ==
    /\ \A i \in ItemIds :
          /\ Cardinality(ListsOf(i)) = 1
          /\ Occurrences(i) = 1
          /\ \A l \in ListsOf(i) :
                IF LessIndented(i) = {} THEN ~IsNestedList(l)
                ELSE Parents(l) = {MaxOf(LessIndented(i))}
    /\ \A l \in ListIds :
          \A a, b \in 1..Len(nodes[l].Items) : a < b => nodes[l].Items[a] < nodes[l].Items[b]

\* a run of three items: a deeper item, then one that returns to the first
\* nested level and joins the nested list of the top item
C5_Witness ==
    /\ CompleteParse
    /\ \E i, j, k \in ItemIds :
          /\ j = i + 1 /\ k = j + 1
          /\ nodes[i].Indent < nodes[k].Indent
          /\ nodes[k].Indent < nodes[j].Indent
          /\ \E l \in ListsOf(k) : Parents(l) = {i} /\ j \in Range(nodes[l].Items)

(***************************************************************************)
(* C6: checkboxes                                                          *)
(***************************************************************************)

\* the text that follows the list marker of a LIST_ITEM literal: what comes
\* after the indentation, the bullet or number with its punctuation and the
\* one space of the marker, up to the last character that is not white space
AfterMarker(literal) ==
    LET t == TrimLeftSet(literal, {" ", "\t"})
        m == IF Head(t) \in {"-", "+"} THEN 2 ELSE LeadIn(t, Digits) + 2
        rest == From(t, m)
    IN Slice(rest, 0, Len(rest) - TrailIn(rest, SpaceSet))

\* the checkbox state that a text after the marker begins with
BoxOf(text) ==
    IF HasPrefix(text, <<"[", " ", "]">>) THEN "Unchecked"
    ELSE IF HasPrefix(text, <<"[", "X", "]">>) THEN "Checked"
    ELSE IF HasPrefix(text, <<"[", "-", "]">>) THEN "Partial"
    ELSE "None"

\* C6 as stated: an item whose text after the marker begins with "[ ]", "[X]"
\* or "[-]" is Unchecked, Checked or Partial and its content is the rest of
\* the text; every other item has state None and the text after the marker as
\* its content.
C6_Checkbox ==
    \A i \in ItemIds :
        LET text == AfterMarker(nodes[i].Token.Literal)
        IN /\ nodes[i].Checkbox = BoxOf(text)
           /\ nodes[i].Content = IF BoxOf(text) = "None" THEN text
                                 ELSE TrimSpace(From(text, 3))

\* the item "- " parsed: nothing follows its marker, and its content is "-"
C6_Witness ==
    /\ CompleteParse
    /\ lex.input = <<"-", " ", NL>>
    /\ \E i \in ItemIds : nodes[i].Checkbox = "None" /\ nodes[i].Content = <<"-">>

(***************************************************************************)
(* C7: block content                                                       *)
(***************************************************************************)

\* the kind of a block marker line after its prefix, in upper case
MarkerKind(line, prefix) ==
    LET f == Fields(From(ToUpper(TrimSpace(line)), Len(prefix)))
    IN IF f = <<>> THEN <<>> ELSE f[1]

IsBeginLine(line) == HasPrefix(ToUpper(TrimSpace(line)), <<"#", "+", "B", "E", "G", "I", "N", "_">>)
IsEndLine(line) == HasPrefix(ToUpper(TrimSpace(line)), <<"#", "+", "E", "N", "D", "_">>)

\* the lines that end the block begun on the first line of lines
MatchingEnds(lines) ==
    {e \in 2..Len(lines) :
        /\ IsEndLine(lines[e])
        /\ MarkerKind(lines[e], <<"#", "+", "E", "N", "D", "_">>)
              = MarkerKind(lines[1], <<"#", "+", "B", "E", "G", "I", "N", "_">>)}

\* the physical lines of a text that ends with a newline
PhysicalLines(input) == Split(Slice(input, 0, Len(input) - 1), NL)

\* C7 as stated: a block with a begin marker and a matching end marker has as
\* content exactly the physical lines between the two, verbatim and in order,
\* joined with newlines.
C7_BlockVerbatim ==
    CompleteParse /\ lex.input \in BlockDocs
    => LET lines == PhysicalLines(lex.input)
           ends == MatchingEnds(lines)
           first == CHOOSE e \in ends : \A x \in ends : e <= x
       IN ends # {} =>
             /\ Len(nodes) >= 1
             /\ nodes[1].type = "Block"
             /\ nodes[1].Content = Join(SubSeq(lines, 2, first - 1), <<NL>>)

\* a block around the line "* a" parsed: its content is the two lines "*"
\* and " a"
C7_Witness ==
    /\ CompleteParse
    /\ lex.input = <<"#", "+", "B", "E", "G", "I", "N", "_", "S", "R", "C", NL, "*", " ", "a", NL, "#", "+", "E", "N", "D", "_", "S", "R", "C", NL>>
    /\ nodes[1].type = "Block"
    /\ nodes[1].Content = <<"*", NL, " ", "a">>

(***************************************************************************)
(* C8: table rows                                                          *)
(***************************************************************************)

\* the rows of all the tables of the tree
AllRows == UNION {Range(nodes[t].Rows) : t \in {i \in 1..Len(nodes) : nodes[i].type = "Table"}}

\* a line that, trimmed, starts and ends with a bar, has no alphanumeric
\* character between the two and has a dash
SeparatorLine(line) ==
    LET t == TrimSpace(line)
    IN /\ Len(t) >= 1
       /\ t[1] = "|" /\ t[Len(t)] = "|"
       /\ \A k \in 2..(Len(t) - 1) : t[k] \notin AlnumSet
       /\ \E k \in 1..Len(t) : t[k] = "-"

\* the pieces between the bars of a line, trimmed, after the leading and the
\* trailing bars of the trimmed line are removed
CellsOf(line) ==
    LET t == TrimSpace(line)
        lead == LeadIn(t, {"|"})
        inner == IF lead = Len(t) THEN <<>> ELSE Slice(t, lead, Len(t) - TrailIn(t, {"|"}))
        bars == <<0>> \o [k \in 1..Count(inner, "|") |->
                            CHOOSE p \in 1..Len(inner) :
                                inner[p] = "|" /\ Count(Slice(inner, 0, p), "|") = k]
                     \o <<Len(inner) + 1>>
    IN [k \in 1..(Len(bars) - 1) |-> TrimSpace(Slice(inner, bars[k], bars[k + 1] - 1))]

TooLarge == Len(lex.input) > lex.maxInputSize

\* C9: an input longer than the maximum size has ErrInputTooLarge set from
\* construction on, every token handed out is end-of-input, and the parse ends
\* with a document without children and a diagnostic that names the
\* condition; an input of at most the maximum size never has the size error.
C9_SizeLimit ==
    /\ TooLarge =>
          /\ lex.err = "ErrInputTooLarge"
          /\ calls >= 1 => peekToken.Type = "EOF"
          /\ calls >= 2 => curToken.Type = "EOF"
          /\ doc = <<>> /\ nodes = <<>>
          /\ pc = "done" => \E k \in 1..Len(errors) : errors[k].msg = "ErrInputTooLarge"
    /\ ~TooLarge => lex.err # "ErrInputTooLarge"

\* the parse of an input one character longer than the limit has returned
C9_Witness ==
    /\ pc = "done"
    /\ lex.maxInputSize = SmallInputSize
    /\ Len(lex.input) = SmallInputSize + 1
    /\ calls = 2

(***************************************************************************)
(* C10: rendering and parsing again                                        *)
(***************************************************************************)

\* C10 as stated: the document can be rendered, and the parse of the rendered
\* text has the shape of the document that was rendered.
C10_RoundTrip ==
    /\ pc # "panic"
    /\ pc = "done" /\ pass = 2 => Shape(nodes, doc) = shape1

\* a list of one item with two nested items was rendered as "- a", "  - b",
\* "- b", and the parse of that text has two top-level items
C10_Witness ==
    /\ pc = "done"
    /\ pass = 2
    /\ lex.input = <<"-", " ", "a", NL, " ", " ", "-", " ", "b", NL, "-", " ", "b", NL>>
    /\ Len(shape1) = 1 /\ Len(shape1[1].kids) = 1
    /\ Len(shape1[1].kids[1].kids) = 1 /\ Len(shape1[1].kids[1].kids[1].kids) = 2
    /\ Len(doc) = 1 /\ Len(nodes[doc[1]].Items) = 2

(***************************************************************************)
(* C11                                                                     *)
(***************************************************************************)

\* the tree and the diagnostics a pair returns
Outcome(r) == [nodes |-> r.nodes, doc |-> r.doc, errors |-> r.errors]

\* a step of one pair leaves the fields of every other pair as they were, and
\* handing over the processor changes the fields of no pair
OwnStateOnly ==
    \A k \in DOMAIN sched.saved \cup {sched.running} :
        (k # sched.running \/ sched'.running # sched.running) => RunOf(k)' = RunOf(k)

\* pair 2 ended, not cancelled, with the tree and the diagnostics of pair 1,
\* which parsed the same input alone
SameAsAlone ==
    (2 \in DOMAIN sched.saved \cup {sched.running} /\ RunOf(2).pc = "done" /\ ~RunOf(2).ctxDone)
        => Outcome(RunOf(2)) = Outcome(RunOf(1))

ReturnedEOF == calls >= 1 /\ peekToken.Type = "EOF"

\* this step calls NextToken on the lexer whose last call returned EOF
CallAfterEOF == ReturnedEOF /\ calls' = calls + 1 /\ sched' = sched

IsEmptyEOF(tok) == tok.Type = "EOF" /\ tok.Literal = <<>>

\* the original statement: after an EOF, every call returns an empty EOF and
\* Err() keeps the value it had
C12_EOFAbsorbing ==
    [][CallAfterEOF => IsEmptyEOF(peekToken') /\ lex'.err = lex.err]_vars

\* the one way Err() changes after an EOF: the input was exhausted without an
\* error, and the next call finds the context cancelled
RecordsCancel(l, m, done) == l.err = "nil" /\ done /\ m.err = "Canceled"

\* C12: once NextToken returned EOF, every later call returns EOF with an empty
\* literal and leaves the cursor where it is; Err() keeps its value, except that
\* a call after the EOF of an exhausted input records the cancellation it finds.
\* Stated for the calls the parser makes and for a call the host could make in
\* any state, with the context cancelled or not.
C12_EOFAbsorbingErrKept ==
    /\ [][CallAfterEOF =>
            /\ IsEmptyEOF(peekToken')
            /\ lex'.position = lex.position
            /\ lex'.err = lex.err \/ RecordsCancel(lex, lex', opts.lexCtx /\ ctxDone)]_vars
    /\ [](ReturnedEOF =>
            \A done \in {FALSE, opts.lexCtx} :
                LET r == NextToken(lex, done)
                IN /\ IsEmptyEOF(r.tok)
                   /\ r.l.position = lex.position
                   /\ r.l.err = lex.err \/ RecordsCancel(lex, r.l, done))

\* the parser called NextToken after the EOF of an exhausted input, and the
\* call found the context cancelled
C12_Witness ==
    /\ ReturnedEOF /\ curToken.Type = "EOF" /\ calls >= 3
    /\ lex.position >= Len(lex.input) /\ Len(lex.input) > 0
    /\ lex.err = "Canceled"
    /\ nodes # <<>>

\* the parser called NextToken after the EOF that follows a line too long
C12_WitnessLineTooLong ==
    ReturnedEOF /\ curToken.Type = "EOF" /\ lex.err = "ErrLineTooLong" /\ nodes # <<>>

(***************************************************************************)
(* C13                                                                     *)
(***************************************************************************)

\* this step is a NextToken call that finds the lexer's context cancelled
CancelledCall == opts.lexCtx /\ ctxDone /\ calls' = calls + 1 /\ sched' = sched

\* the call answers an empty EOF, leaves the cursor, and hands on the token
\* that was returned before it
AnswersEOFInPlace ==
    /\ IsEmptyEOF(peekToken')
    /\ lex'.position = lex.position /\ lex'.readPosition = lex.readPosition
    /\ curToken' = peekToken

\* the host cancels: no token and no node the parser holds changes
CancelKeepsTokens ==
    (~ctxDone /\ ctxDone') =>
        curToken' = curToken /\ peekToken' = peekToken /\ nodes' = nodes /\ lex' = lex

\* the original statement: after every call that finds the context cancelled,
\* Err() is the cancellation cause
C13_CancelPolled ==
    [][/\ CancelledCall => AnswersEOFInPlace /\ lex'.err = "Canceled"
       /\ CancelKeepsTokens]_vars

\* C13: a NextToken call that finds the context cancelled returns EOF without
\* advancing the cursor, and so does every later call; Err() is the
\* cancellation cause from then on, unless a size or line-length error was
\* recorded before: the call then returns EOF without polling and Err() keeps
\* that error.  Tokens returned before the cancellation are unaffected.
C13_CancelPolledUnlessFailed ==
    [][/\ CancelledCall =>
            /\ AnswersEOFInPlace
            /\ lex.err = "nil" => lex'.err = "Canceled"
            /\ lex.err # "nil" => lex'.err = lex.err
       /\ CancelKeepsTokens]_vars

\* the context was cancelled in the middle of the input, after the parser
\* built nodes from earlier tokens; two calls since have returned EOF
C13_Witness ==
    /\ opts.lexCtx /\ ctxDone /\ lex.err = "Canceled"
    /\ calls >= 4 /\ nodes # <<>>
    /\ lex.position < Len(lex.input)
    /\ curToken.Type = "EOF" /\ peekToken.Type = "EOF"

(***************************************************************************)
(* C14                                                                     *)
(***************************************************************************)

\* diagnostic e reports the terminal condition the lexer recorded
ReportsCondition(e) ==
    \/ e.msg = lex.err
    \/ e.msg = "lexer error: " \o lex.err
    \/ lex.err = "Canceled" /\ e.msg = "parsing cancelled: context canceled"

\* C14: when ParseDocument has returned and the lexer has recorded a terminal
\* condition, Errors() holds exactly one diagnostic for it; and the main loop
\* dispatches no node once it can see the condition
C14_TerminalSurfaced ==
    /\ [][(pc = "loop" /\ lex.err # "nil") => nodes' = nodes]_vars
    /\ []((pc = "done" /\ lex.err # "nil") =>
            Cardinality({k \in 1..Len(errors) : ReportsCondition(errors[k])}) = 1)

\* ParseDocument returned a block and no diagnostic although the lexer cut a
\* line of the block that was too long
C14_Witness ==
    /\ pc = "done" /\ lex.err = "ErrLineTooLong"
    /\ errors = <<>>
    /\ \E id \in 1..Len(nodes) : nodes[id].type = "Block"

\* ParseDocument returned no diagnostic although the lexer found its context
\* cancelled at its first NextToken call
C14_WitnessCancelled ==
    /\ pc = "done" /\ lex.err = "Canceled" /\ opts.parCtx
    /\ errors = <<>> /\ nodes = <<>> /\ Len(lex.input) > 0

(***************************************************************************)
(* C15                                                                     *)
(***************************************************************************)

\* the lines of the lexer's input, and whether one is longer than the maximum
LinesOf(input) == Split(input, NL)
LongLine == \E i \in 1..Len(LinesOf(lex.input)) : Len(LinesOf(lex.input)[i]) > lex.maxLineLength

\* the parse ended by itself: whatever the lexer could read, it has read
ReadToEnd == pc = "done" /\ ~ctxDone /\ ~TooLarge

\* this step is the NextToken call that sets ErrLineTooLong
SetsLineTooLong ==
    lex.err = "nil" /\ lex'.err = "ErrLineTooLong" /\ calls' = calls + 1 /\ sched' = sched

\* C15: a line of any kind that is longer than the maximum line length sets
\* ErrLineTooLong; the call that sets it returns the truncated line as one
\* token and the next call returns EOF; an input whose lines are all at most
\* the maximum never has the error
C15_LineLimit ==
    /\ []((ReadToEnd /\ LongLine) => lex.err = "ErrLineTooLong")
    /\ [](~LongLine => lex.err # "ErrLineTooLong")
    /\ [][SetsLineTooLong =>
            /\ peekToken'.Type = "TEXT"
            /\ \E i \in 1..Len(LinesOf(lex.input)) :
                  /\ HasPrefix(LinesOf(lex.input)[i], peekToken'.Literal)
                  /\ Len(peekToken'.Literal) < Len(LinesOf(lex.input)[i])
            /\ IsEmptyEOF(NextToken(lex', FALSE).tok)]_vars

\* the parse of a text with a line longer than the maximum ended with nodes
\* and without ErrLineTooLong
C15_Witness ==
    /\ ReadToEnd /\ LongLine /\ pass = 1
    /\ lex.err = "nil" /\ errors = <<>>
    /\ nodes # <<>>

(***************************************************************************)
(* C16                                                                     *)
(***************************************************************************)

\* the 1-based place of the nearest c after the first character of text, or 0
NearestAfter(text, c) ==
    IF \E j \in 2..Len(text) : text[j] = c
    THEN CHOOSE j \in 2..Len(text) : text[j] = c /\ \A i \in 2..(j - 1) : text[i] # c
    ELSE 0

\* the rule of C16 at every position the scanner takes in remaining, and in
\* the text enclosed by every nestable span it finds
RECURSIVE SpanRule(_, _)
SpanRule(remaining, depth) ==
    IF remaining = <<>> THEN TRUE
    ELSE LET c == remaining[1]
             close == IF c \in MarkerChars THEN NearestAfter(remaining, c) ELSE 0
             inner == [i \in 1..(close - 2) |-> remaining[i + 1]]
             after == [i \in 1..(Len(remaining) - close) |-> remaining[close + i]]
             nestable == c \in {"*", "/", "+", "_"}
             it == inlineIter(remaining, depth)
         IN /\ close > 2 =>
                 /\ it.elem.Type = markerType(c)
                 /\ it.rest = after
                 /\ nestable =>
                       /\ it.elem.Content = <<>>
                       /\ it.elem.Children = parseInlineElementsRecursive(inner, depth + 1)
                       /\ SpanRule(inner, depth + 1)
                 /\ ~nestable => it.elem.Content = inner /\ it.elem.Children = <<>>
            /\ SpanRule(it.rest, depth)

ParagraphIds == {id \in 1..Len(nodes) : nodes[id].type = "Paragraph"}

\* C16: a marker at the scanner's position whose nearest following twin
\* encloses a non-empty span gives exactly one element of the marker's type,
\* and the scanner goes on after the twin; bold, italic, strikethrough and
\* underline have no content and the decomposition of the span as children;
\* code and verbatim have the span as content and no children.  Stated for
\* the inline elements of every paragraph.
C16_InlineSpan ==
    \A id \in ParagraphIds :
        /\ nodes[id].Inline = inlineLoop(nodes[id].Content, 0)
        /\ SpanRule(nodes[id].Content, 0)

\* a paragraph that is one bold span around one verbatim span
C16_Witness ==
    \E id \in ParagraphIds :
        /\ Len(nodes[id].Inline) = 1
        /\ nodes[id].Inline[1].Type = "bold" /\ nodes[id].Inline[1].Content = <<>>
        /\ Len(nodes[id].Inline[1].Children) = 1
        /\ nodes[id].Inline[1].Children[1] = Inline("verbatim", <<"a">>, <<>>, <<>>)

(***************************************************************************)
(* C17                                                                     *)
(***************************************************************************)

\* the string of a diagnostic: fmt.Sprintf("line %d: %s", line, msg) for one
\* made by addError, err.Error() for the one parser.New appends; the message
\* is kept as one piece
ErrorString(e) ==
    IF e.hasLine THEN <<"l", "i", "n", "e", " ">> \o Itoa(e.line) \o <<":", " ">> \o <<e.msg>>
    ELSE <<e.msg>>

\* s reads "line <n>: <message>" with n a decimal number
HasLineForm(s) ==
    /\ Len(s) >= 9
    /\ [i \in 1..5 |-> s[i]] = <<"l", "i", "n", "e", " ">>
    /\ \E k \in 6..(Len(s) - 3) :
          /\ \A i \in 6..k : s[i] \in Range(DigitSeq)
          /\ s[k + 1] = ":" /\ s[k + 2] = " "

\* the number n of a string of that form
LineNumberOf(s) ==
    LET k == CHOOSE j \in 6..(Len(s) - 3) :
                 (\A i \in 6..j : s[i] \in Range(DigitSeq)) /\ s[j + 1] = ":"
    IN CHOOSE n \in 0..(Len(lex.input) + 1) : Itoa(n) = [i \in 1..(k - 5) |-> s[i + 5]]

\* this step of the parse records a diagnostic
RecordsDiagnostic == errors' # errors /\ pass' = pass /\ sched' = sched

\* C17: every diagnostic reads "line <n>: <message>", n is the line of the
\* token the parser is processing when it records the diagnostic, and a new
\* diagnostic goes to the end of the list
C17_DiagnosticForm ==
    /\ [](\A k \in 1..Len(errors) : HasLineForm(ErrorString(errors[k])))
    /\ [][RecordsDiagnostic =>
            /\ Len(errors') = Len(errors) + 1
            /\ [k \in 1..Len(errors) |-> errors'[k]] = errors
            /\ HasLineForm(ErrorString(errors'[Len(errors')]))
            /\ LineNumberOf(ErrorString(errors'[Len(errors')])) = curToken.Line]_vars

\* parser.New recorded the size error of the lexer, and the diagnostic has no line
C17_Witness ==
    /\ pc = "done" /\ Len(errors) = 1
    /\ ErrorString(errors[1]) = <<"ErrInputTooLarge">>
    /\ ~HasLineForm(ErrorString(errors[1]))

\* what holds: every diagnostic but the one of parser.New has the form, with
\* the line of the current token, in the order of detection
C17_FormButNew ==
    /\ [](\A k \in 1..Len(errors) :
            HasLineForm(ErrorString(errors[k])) \/ (k = 1 /\ errors[k].msg = "ErrInputTooLarge"))
    /\ [][(RecordsDiagnostic /\ pc # "new1") =>
            /\ Len(errors') = Len(errors) + 1
            /\ [k \in 1..Len(errors) |-> errors'[k]] = errors
            /\ HasLineForm(ErrorString(errors'[Len(errors')]))
            /\ LineNumberOf(ErrorString(errors'[Len(errors')])) = curToken.Line]_vars

(***************************************************************************)
(* C18                                                                     *)
(***************************************************************************)

\* the time of day in the text of a matched timestamp: the one or two digits
\* before its first colon, the colon and the two digits after it
TimeIn(span) ==
    IF \E c \in 1..Len(span) : span[c] = ":"
    THEN LET c == CHOOSE j \in 1..Len(span) : span[j] = ":" /\ \A i \in 1..(j - 1) : span[i] # ":"
             n == IF span[c - 2] \in Digits THEN 2 ELSE 1
         IN [i \in 1..(n + 3) |-> span[c - n - 1 + i]]
    ELSE <<>>

\* the rule of C18 for the result ts of ParseTimestamp on text, m being the
\* leftmost match of timestampRegex in text
TimestampRule(text, ts, m) ==
    /\ ts.isNil <=> ~m.ok
    /\ m.ok =>
          LET span == [i \in 1..(m.pos - m.start) |-> text[m.start + i]]
          IN /\ (span[1] = "<" /\ span[Len(span)] = ">") => ts.Active
             /\ (span[1] = "[" /\ span[Len(span)] = "]") => ~ts.Active
             /\ ts.Date = [i \in 1..10 |-> span[i + 1]]
             /\ ts.Time = TimeIn(span)

\* C18: ParseTimestamp answers nil exactly when the text holds no timestamp;
\* otherwise Active is true when the matched timestamp stands in angle
\* brackets and false when it stands in square brackets, whatever text is
\* before or after it, and Date and Time are the date and the time of day of
\* the matched timestamp
C18_Timestamp == stamp.called => TimestampRule(stamp.text, stamp.ts, tsFind(stamp.text))

\* ParseTimestamp answered an inactive timestamp for a text whose timestamp
\* stands in angle brackets, after other text
C18_Witness ==
    /\ stamp.called /\ ~stamp.ts.isNil /\ ~stamp.ts.Active
    /\ stamp.ts.Time # <<>>
    /\ LET m == tsFind(stamp.text)
       IN m.start > 0 /\ stamp.text[m.start + 1] = "<" /\ stamp.text[m.pos] = ">"

(***************************************************************************)
(* C19                                                                     *)
(***************************************************************************)

\* this step is a NextToken call on a lexer without error or cancellation
LexerCall ==
    /\ calls' = calls + 1 /\ sched' = sched
    /\ lex.err = "nil" /\ ~(opts.lexCtx /\ ctxDone)

\* the number of stars of the input from offset p on
StarRun(p) ==
    IF \E n \in 0..(Len(lex.input) - p) : CharAt(lex.input, p + n) # "*"
    THEN CHOOSE n \in 0..(Len(lex.input) - p) :
             CharAt(lex.input, p + n) # "*" /\ \A i \in 0..(n - 1) : CharAt(lex.input, p + i) = "*"
    ELSE Len(lex.input) - p

\* the offset of the end of the line that holds offset p
LineEnd(p) ==
    CHOOSE e \in p..Len(lex.input) :
        /\ e = Len(lex.input) \/ lex.input[e + 1] = NL
        /\ \A i \in p..(e - 1) : lex.input[i + 1] # NL

\* the cursor stands at the start of a line that begins with stars and a space
HeadlineStart ==
    /\ lex.position = 0 \/ CharAt(lex.input, lex.position - 1) = NL
    /\ StarRun(lex.position) >= 1
    /\ CharAt(lex.input, lex.position + StarRun(lex.position)) = " "

\* C19: at a line that starts with stars and a space NextToken returns STARS
\* with the stars as literal; the next call returns TEXT with the rest of the
\* line, its leading space included; the call after that returns one NEWLINE
\* and leaves the cursor at the start of the next line, or returns EOF when
\* the line is the last and has no newline
C19_HeadlineTokens ==
    /\ [][(LexerCall /\ HeadlineStart) =>
            /\ peekToken'.Type = "STARS"
            /\ peekToken'.Literal = [i \in 1..StarRun(lex.position) |-> "*"]]_vars
    /\ [][(LexerCall /\ peekToken.Type = "STARS") =>
            /\ peekToken'.Type = "TEXT"
            /\ peekToken'.Literal =
                  [i \in 1..(LineEnd(lex.position) - lex.position) |-> lex.input[lex.position + i]]
            /\ peekToken'.Literal[1] = " "]_vars
    /\ [][(LexerCall /\ curToken.Type = "STARS" /\ peekToken.Type = "TEXT") =>
            IF lex.position < Len(lex.input)
            THEN /\ peekToken' = Token("NEWLINE", <<NL>>, peekToken.Line, peekToken'.Column)
                 /\ lex'.position = lex.position + 1
                 /\ lex.input[lex'.position] = NL
            ELSE IsEmptyEOF(peekToken')]_vars

\* the parse of a text of two headline lines, the last without a newline,
\* ended: the tokens of the last line were STARS, TEXT and EOF
C19_Witness ==
    /\ pc = "done" /\ pass = 1 /\ lex.err = "nil" /\ ~ctxDone
    /\ lex.input # <<>> /\ lex.input[Len(lex.input)] # NL
    /\ Cardinality(HeadlineIds) = 2
    /\ Len(nodes) = 2
    /\ nodes[2].Token.Type = "STARS" /\ nodes[2].Title # <<>>
    /\ curToken.Type = "EOF" /\ peekToken.Type = "EOF"

(***************************************************************************)
(* C20                                                                     *)
(***************************************************************************)

\* line is a bullet item, indented or not
IsItemLine(line) ==
    LET n == LeadIn(line, {" "})
    IN Len(line) >= n + 2 /\ line[n + 1] = "-" /\ line[n + 2] = " "

\* the item lines of lines that start a list: the first line, or a line whose
\* predecessor is not an item and is not one blank line after an item
ListStarts(lines) ==
    {i \in 1..Len(lines) :
        /\ IsItemLine(lines[i])
        /\ ~(i >= 2 /\ IsItemLine(lines[i - 1]))
        /\ ~(i >= 3 /\ lines[i - 1] = <<>> /\ IsItemLine(lines[i - 2]))}

\* the lists parseList returned
RunLists == {l \in ListIds : ~IsNestedList(l)}

\* C20: item lines that follow each other, with at most one blank line
\* between two of them, are collected into one List; a line that is not an
\* item, or a second blank line, ends the list
C20_BlankLineInList ==
    (CompleteParse /\ lex.input \in BlankListDocs)
        => Cardinality(RunLists) = Cardinality(ListStarts(PhysicalLines(lex.input)))

\* two items with one blank line between them were parsed into two lists
C20_Witness ==
    /\ CompleteParse /\ lex.input \in BlankListDocs
    /\ Cardinality(ListStarts(PhysicalLines(lex.input))) = 1
    /\ Cardinality(ItemIds) = 2
    /\ Len(doc) = 2 /\ \A k \in 1..2 : nodes[doc[k]].type = "List" /\ Len(nodes[doc[k]].Items) = 1

\* what parseList does: every blank line ends the list
C20_BlankLineEndsList ==
    (CompleteParse /\ lex.input \in BlankListDocs)
        => Cardinality(RunLists) =
              Cardinality({i \in 1..Len(PhysicalLines(lex.input)) :
                              /\ IsItemLine(PhysicalLines(lex.input)[i])
                              /\ ~(i >= 2 /\ IsItemLine(PhysicalLines(lex.input)[i - 1]))})

(***************************************************************************)
(* C21                                                                     *)
(***************************************************************************)

\* parseBlock stands at the token of an end-marker line
AtEndMarker == pc = "block" /\ curToken.Type # "EOF" /\ IsEndLine(curToken.Literal)

\* the kind of the end marker is the kind of the block's begin marker
SameKind == MarkerKind(curToken.Literal, <<"#", "+", "E", "N", "D", "_">>) = loc.node.Type

\* C21: inside a block, an end-marker line closes the block when its kind is
\* the kind of the begin marker, in any letter case; an end marker of another
\* kind, one that only starts with the begin kind included, stays a content
\* line and the block goes on
C21_BlockEndKind ==
    [][(AtEndMarker /\ calls' # calls) =>
          IF SameKind
          THEN pc' = "loop" /\ Len(nodes') = Len(nodes) + 1
          ELSE pc' = "block" /\ loc'.lines = Append(loc.lines, curToken.Literal)]_vars

\* a SRC block was closed by the line "#+END_SRCX": its content is empty
\* although the text has a body line and the end marker "#+END_SRC" after it
C21_Witness ==
    /\ CompleteParse /\ lex.input \in BlockDocs
    /\ LET lines == PhysicalLines(lex.input)
       IN /\ Len(lines) = 4
          /\ lines[2] = <<"#", "+", "E", "N", "D", "_", "S", "R", "C", "X">>
          /\ lines[3] = <<"x">>
          /\ lines[4] = <<"#", "+", "E", "N", "D", "_", "S", "R", "C">>
          /\ MarkerKind(lines[1], <<"#", "+", "B", "E", "G", "I", "N", "_">>) = <<"S", "R", "C">>
    /\ nodes[1].type = "Block" /\ nodes[1].Content = <<>>
    /\ Len(nodes) = 2 /\ nodes[2].type = "Paragraph"

(***************************************************************************)
(* C22                                                                     *)
(***************************************************************************)

\* the lines of a drawer's body: the lines after the begin line, up to the
\* first end line or the end of the text
RECURSIVE UpToEnd(_)
UpToEnd(lines) ==
    IF lines = <<>> \/ ToUpper(Head(lines)) = <<":", "E", "N", "D", ":">> THEN <<>>
    ELSE <<Head(lines)>> \o UpToEnd(Tail(lines))
DrawerBody(text) == UpToEnd(Tail(PhysicalLines(text)))

\* a line ":KEY: value": the position of the colon that ends the key, 0 when
\* the line has not this form
KeyEnd(line) ==
    IF Len(line) >= 3 /\ line[1] = ":" /\ line[2] # ":" /\ \E i \in 3..Len(line) : line[i] = ":"
    THEN CHOOSE i \in 3..Len(line) : line[i] = ":" /\ \A j \in 2..(i - 1) : line[j] # ":"
    ELSE 0
KeyOf(line) == SubSeq(line, 2, KeyEnd(line) - 1)
ValueOf(line) == TrimLeftSet(SubSeq(line, KeyEnd(line) + 1, Len(line)), SpaceSet)

\* the keys the lines set, and the value of the last line that sets key k
KeysOf(lines) == {KeyOf(lines[i]) : i \in {j \in DOMAIN lines : KeyEnd(lines[j]) > 0}}
LastValue(lines, k) ==
    ValueOf(lines[MaxOf({i \in DOMAIN lines : KeyEnd(lines[i]) > 0 /\ KeyOf(lines[i]) = k})])

\* the document is one drawer of DrawerDocs and has been parsed
DrawerParsed == CompleteParse /\ lex.input \in DrawerDocs /\ nodes[1].type = "Drawer"

\* in a drawer named PROPERTIES the lines ":KEY: value" make the mapping, a
\* later line overriding an earlier one, and the raw content is empty
PropertiesRule ==
    (DrawerParsed /\ nodes[1].Name = S_PROPERTIES) =>
        LET body == DrawerBody(lex.input)
        IN /\ DOMAIN nodes[1].Properties = KeysOf(body)
           /\ \A k \in KeysOf(body) : nodes[1].Properties[k] = LastValue(body, k)
           /\ nodes[1].Content = <<>>

\* in a drawer of another name nothing is recorded and the raw content is
\* the body, line by line
RawRule ==
    (DrawerParsed /\ nodes[1].Name # S_PROPERTIES) =>
        /\ DOMAIN nodes[1].Properties = {}
        /\ nodes[1].Content = Join(DrawerBody(lex.input), <<NL>>)

\* C22: a drawer named exactly PROPERTIES maps KEY to value for every body
\* line ":KEY: value", an empty value included, the last line of a key
\* winning, and keeps no raw content; a drawer of any other name records no
\* property and keeps every body line verbatim and in order as raw content
C22_Drawer == PropertiesRule /\ RawRule

\* a drawer ":D:" with a blank line between its two body lines has been parsed
C22_Witness ==
    /\ DrawerParsed /\ nodes[1].Name = <<"D">>
    /\ DrawerBody(lex.input) = <<<<"x">>, <<>>, <<"y">>>>
    /\ nodes[1].Content = <<"x", NL, "y">>

\* a PROPERTIES drawer with two lines for the key K has been parsed
C22_WitnessOverride ==
    /\ DrawerParsed /\ nodes[1].Name = S_PROPERTIES
    /\ DrawerBody(lex.input) = <<<<":", "K", ":", " ", "v">>, <<":", "K", ":">>>>
    /\ nodes[1].Properties[<<"K">>] = <<>>

(***************************************************************************)
(* C23                                                                     *)
(***************************************************************************)

\* the text begins a block on its first line and no later line is an end
\* marker of the kind of the begin marker
UnterminatedBlock ==
    /\ lex.input \in BlockDocs
    /\ MatchingEnds(PhysicalLines(lex.input)) = {}

\* the text begins a drawer on its first line and no later line is ":END:"
UnterminatedDrawer ==
    /\ lex.input \in DrawerDocs
    /\ Len(DrawerBody(lex.input)) = Len(PhysicalLines(lex.input)) - 1

\* the tree is the one block or drawer, and there is no diagnostic
OnlyNode(type) ==
    /\ Len(nodes) = 1 /\ doc = <<1>>
    /\ nodes[1].type = type /\ nodes[1].Token.Line = 1
    /\ errors = <<>>

\* C23: a block with no matching end marker and a drawer with no end marker
\* after it take every remaining line: when ParseDocument has returned, the
\* block or drawer is the last node of the tree, no later line, headline or
\* other, has a node of its own, and no diagnostic was added
C23_Unterminated ==
    CompleteParse => /\ UnterminatedBlock => OnlyNode("Block")
                     /\ UnterminatedDrawer => OnlyNode("Drawer")

\* an unterminated block with a headline line in its body has been parsed
C23_Witness ==
    /\ CompleteParse /\ UnterminatedBlock
    /\ \E i \in 2..Len(PhysicalLines(lex.input)) : PhysicalLines(lex.input)[i] = <<"*", " ", "a">>
    /\ OnlyNode("Block")

\* an unterminated drawer with a headline line in its body has been parsed
C23_WitnessDrawer ==
    /\ CompleteParse /\ UnterminatedDrawer
    /\ \E i \in 2..Len(PhysicalLines(lex.input)) : PhysicalLines(lex.input)[i] = <<"*", " ", "a">>
    /\ OnlyNode("Drawer")

\* an end marker that starts with the begin kind is taken for the end of the
\* block: the unterminated block is then followed by other nodes
C23_ClosedByLongerKind ==
    /\ CompleteParse /\ UnterminatedBlock
    /\ Len(nodes) > 1
    /\ \E i \in 2..Len(PhysicalLines(lex.input)) :
          PhysicalLines(lex.input)[i] = <<"#", "+", "E", "N", "D", "_", "S", "R", "C", "X">>

(***************************************************************************)
(* C24                                                                     *)
(***************************************************************************)

\* the lines of the text that are directives "#+KEY: value"
DirectiveLines ==
    {i \in DOMAIN PhysicalLines(lex.input) :
        LET line == PhysicalLines(lex.input)[i]
        IN HasPrefix(line, <<"#", "+">>) /\ IndexCh(line, ":") >= 2}

\* the text between "#+" and the first colon, and the trimmed text after it
DirectiveKey(line) == SubSeq(line, 3, IndexCh(line, ":"))
DirectiveValue(line) == TrimSpace(SubSeq(line, IndexCh(line, ":") + 2, Len(line)))

\* the diagnostics and the nodes that belong to line i
DiagnosticsAt(i) == {k \in DOMAIN errors : errors[k].hasLine /\ errors[k].line = i}
NodesAt(i) == {id \in DOMAIN nodes : nodes[id].Token.Line = i}

\* a directive with an empty key leaves one diagnostic and no node: the tree
\* has one node for each other line, and none besides
EmptyKeyRule ==
    \A i \in DirectiveLines :
        DirectiveKey(PhysicalLines(lex.input)[i]) = <<>> =>
            /\ Cardinality(DiagnosticsAt(i)) = 1
            /\ NodesAt(i) = {}
            /\ Len(nodes) = Len(PhysicalLines(lex.input))
                              - Cardinality({j \in DirectiveLines :
                                    DirectiveKey(PhysicalLines(lex.input)[j]) = <<>>})

\* a directive with a key is a Keyword node with that key and the trimmed value
KeyRule ==
    \A i \in DirectiveLines :
        LET line == PhysicalLines(lex.input)[i]
        IN DirectiveKey(line) # <<>> =>
            /\ DiagnosticsAt(i) = {}
            /\ \E id \in NodesAt(i) :
                  /\ NodesAt(i) = {id}
                  /\ nodes[id].type = "Keyword" /\ ~nodes[id].isNil
                  /\ nodes[id].Key = DirectiveKey(line)
                  /\ nodes[id].Value = DirectiveValue(line)

\* C24: a directive line with an empty key adds exactly one diagnostic and
\* produces no node, the other lines producing their nodes as without it; a
\* directive with a key is a Keyword node whose key is the text between "#+"
\* and the first colon and whose value is the trimmed rest after that colon
C24_Keyword ==
    (CompleteParse /\ lex.input \in KeywordDocs) => EmptyKeyRule /\ KeyRule

\* "#+: v" after a headline has been parsed: the diagnostic is recorded and
\* the headline has a child that is a nil Keyword
C24_Witness ==
    /\ CompleteParse /\ lex.input \in KeywordDocs
    /\ PhysicalLines(lex.input) = <<<<"*", " ", "a">>, <<"#", "+", ":", " ", "v">>, <<"t">>>>
    /\ Cardinality(DiagnosticsAt(2)) = 1
    /\ nodes[1].type = "Headline" /\ Len(nodes[1].Children) = 2
    /\ nodes[nodes[1].Children[1]].isNil

\* a directive with a key and a value that holds a colon has been parsed
C24_WitnessKey ==
    /\ CompleteParse /\ lex.input \in KeywordDocs
    /\ \E id \in DOMAIN nodes : /\ nodes[id].Key = <<"A", " ", "b">>
                                /\ nodes[id].Value = <<"v", ":", "w">>

\* rendering the tree of a text with an empty-key directive panics
C24_WitnessPanic == pc = "panic" /\ lex.input \in KeywordDocs

(***************************************************************************)
(* C25                                                                     *)
(***************************************************************************)

\* s is a block ":tag1:tag2:" of tag characters between two colons
IsTagBlock(s) ==
    /\ Len(s) >= 3 /\ s[1] = ":" /\ s[Len(s)] = ":"
    /\ \A j \in 2..(Len(s) - 1) : s[j] \in TagChars

\* the places k of the text where a tag block preceded by whitespace runs to
\* the end of the text
TagBlockStarts(text) ==
    {k \in 2..Len(text) : text[k - 1] \in SpaceSet /\ IsTagBlock(SubSeq(text, k, Len(text)))}

\* step 1: the trailing tag block preceded by whitespace, as far to the left
\* as it can start, is the tag list; the rest is trimmed
TagsStep(text) ==
    IF TagBlockStarts(text) = {} THEN [tags |-> <<>>, rest |-> text]
    ELSE LET k == CHOOSE x \in TagBlockStarts(text) : \A y \in TagBlockStarts(text) : x <= y
         IN [tags |-> Split(SubSeq(text, k + 1, Len(text) - 1), ":"),
             rest |-> TrimSpace(SubSeq(text, 1, k - 1))]

\* step 2: a leading "TODO " or "DONE ", or the text being TODO or DONE
KeywordStep(text) ==
    IF \E w \in {S_TODO, S_DONE} : text = w \/ HasPrefix(text, w \o <<" ">>)
    THEN [keyword |-> SubSeq(text, 1, 4), rest |-> TrimSpace(SubSeq(text, 5, Len(text)))]
    ELSE [keyword |-> <<>>, rest |-> text]

\* step 3: a leading "[#X]" with X an upper-case letter
PriorityStep(text) ==
    IF Len(text) >= 4 /\ SubSeq(text, 1, 2) = <<"[", "#">> /\ text[3] \in UpperSet /\ text[4] = "]"
    THEN [priority |-> <<text[3]>>, rest |-> TrimSpace(SubSeq(text, 5, Len(text)))]
    ELSE [priority |-> <<>>, rest |-> text]

\* the headline of a text of TitleDocs, and the text after its stars
TitleParsed == CompleteParse /\ lex.input \in TitleDocs /\ Len(nodes) = 1
TitleText == TrimSpace(SubSeq(lex.input, 2, Len(lex.input)))

\* C25: the text of a headline is stripped in the order tags, keyword,
\* priority: the trailing tag block preceded by whitespace is the tag list,
\* then a leading "TODO " or "DONE " (or the rest being TODO or DONE) is the
\* keyword, then a leading "[#X]" with X an upper-case letter is the priority,
\* and the trimmed rest is the title; a step whose pattern does not match at
\* its place changes nothing, so a keyword after the priority stays in the title
C25_HeadlineOrder ==
    TitleParsed =>
        LET t == TagsStep(TitleText)
            k == KeywordStep(t.rest)
            p == PriorityStep(k.rest)
        IN /\ nodes[1].type = "Headline"
           /\ nodes[1].Tags = t.tags
           /\ nodes[1].Keyword = k.keyword
           /\ nodes[1].Priority = p.priority
           /\ nodes[1].Title = p.rest

\* "[#A] TODO x" has been parsed: priority A, no keyword, title "TODO x"
C25_Witness ==
    /\ TitleParsed
    /\ TitleText = <<"[", "#", "A", "]", " ", "T", "O", "D", "O", " ", "x">>
    /\ nodes[1].Priority = <<"A">> /\ nodes[1].Keyword = <<>>
    /\ nodes[1].Title = <<"T", "O", "D", "O", " ", "x">>

\* a headline with all three parts has been parsed
C25_WitnessAll ==
    /\ TitleParsed
    /\ nodes[1].Keyword = S_TODO /\ nodes[1].Priority = <<"B">>
    /\ nodes[1].Tags = <<<<"t">>, <<"u">>>> /\ nodes[1].Title = <<"x">>

(***************************************************************************)
(* C26                                                                     *)
(***************************************************************************)

\* the cursor stands at the first character of a line
AtLineStart == lex.position = 0 \/ CharAt(lex.input, lex.position - 1) = NL

\* the token this call returns is not NEWLINE and not EOF
ContentToken == peekToken'.Type \notin {"NEWLINE", "EOF"}

\* this call starts at the first character of a line and ends at its end
WholeLine == AtLineStart /\ lex'.position = LineEnd(lex.position)

CurLine == SubSeq(lex.input, lex.position + 1, LineEnd(lex.position))

\* the text after the leading run of characters of the set cs
AfterRun(line, cs) == SubSeq(line, LeadIn(line, cs) + 1, Len(line))

\* s begins with an ordered marker: digits, then "." or ")", then a space
OrderedMarker(s) ==
    LET r == AfterRun(s, Digits)
    IN LeadIn(s, Digits) >= 1 /\ Len(r) >= 2 /\ r[1] \in {".", ")"} /\ r[2] = " "

\* s begins with a bullet marker: "-" or "+", then a space
BulletMarker(s) == Len(s) >= 2 /\ s[1] \in {"-", "+"} /\ s[2] = " "

\* the four cases of a line whose first character announces a construct that
\* the line does not complete
DigitsNoMarker(line) == line # <<>> /\ line[1] \in Digits /\ ~OrderedMarker(line)
IndentNoMarker(line) ==
    /\ line # <<>> /\ line[1] \in {" ", "\t"}
    /\ ~BulletMarker(AfterRun(line, {" ", "\t"}))
    /\ ~OrderedMarker(AfterRun(line, {" ", "\t"}))
DashesNoBulletNoRule(line) ==
    /\ line # <<>> /\ line[1] = "-"
    /\ ~BulletMarker(line)
    /\ ~(LeadIn(line, {"-"}) >= 5 /\ LeadIn(line, {"-"}) = Len(line))
ColonNoMarker(line) ==
    /\ line # <<>> /\ line[1] = ":"
    /\ ~(TrimSpace(line)[Len(TrimSpace(line))] = ":" /\ Count(TrimSpace(line), ":") = 2)
Incomplete(line) ==
    DigitsNoMarker(line) \/ IndentNoMarker(line) \/ DashesNoBulletNoRule(line)
        \/ ColonNoMarker(line)

\* C27: NextToken never returns an ILLEGAL token; at the start of a line that
\* begins like a structural construct and does not complete it (digits
\* without ". " or ") ", whitespace without a list marker after it, dashes
\* that are neither a bullet nor a rule, a colon line that is no drawer
\* marker) it returns one TEXT token whose literal is the whole line from its
\* first character, and leaves the cursor at the end of that line
C27_Fallback ==
    /\ [][calls' # calls => peekToken'.Type # "ILLEGAL"]_vars
    /\ [][(LexerCall /\ lex.position < Len(lex.input) /\ AtLineStart /\ Incomplete(CurLine)) =>
            /\ peekToken' = Token("TEXT", CurLine, lex.line, lex.column)
            /\ lex'.position = LineEnd(lex.position)
            /\ lex'.err = "nil"]_vars

\* "t\n12a\n" has been parsed: the second paragraph is the whole line "12a"
C27_Witness ==
    /\ CompleteParse
    /\ lex.input = <<"t", NL, "1", "2", "a", NL>>
    /\ Len(nodes) = 2 /\ nodes[2].type = "Paragraph"
    /\ nodes[2].Token = Token("TEXT", <<"1", "2", "a">>, 2, 1)

(***************************************************************************)
(* C28                                                                     *)
(***************************************************************************)

\* the marker of the first item of list l begins with a digit
FirstMarkerIsDigit(l) ==
    LET line == TrimSpace(nodes[nodes[l].Items[1]].Token.Literal)
    IN line # <<>> /\ line[1] \in Digits

\* C28: every List of the tree, nested or not, is ordered exactly when the
\* marker of its first item begins with a digit, whatever the text after the
\* marker and whatever the markers of its later items
C28_Ordered ==
    CompleteParse =>
        \A l \in ListIds : nodes[l].Items # <<>> => (nodes[l].Ordered <=> FirstMarkerIsDigit(l))

\* "- a" with the nested item "  1. d" has been parsed: the nested list is not
\* ordered
C28_Witness ==
    /\ CompleteParse
    /\ lex.input = <<"-", " ", "a", NL, " ", " ", "1", ".", " ", "d", NL>>
    /\ \E l \in ListIds : /\ IsNestedList(l)
                          /\ nodes[nodes[l].Items[1]].Token.Literal = <<" ", " ", "1", ".", " ", "d">>
                          /\ ~nodes[l].Ordered

\* "- a" with the nested item "  - 2x" has been parsed: the nested list is
\* ordered
C28_WitnessBullet ==
    /\ CompleteParse
    /\ lex.input = <<"-", " ", "a", NL, " ", " ", "-", " ", "2", "x", NL>>
    /\ \E l \in ListIds : IsNestedList(l) /\ nodes[l].Ordered

(***************************************************************************)
(* C29                                                                     *)
(***************************************************************************)

\* the marker character of an element type
MarkerOf(type) == CHOOSE c \in MarkerChars : markerType(c) = type

\* the text that a sequence of inline elements stands for
RECURSIVE InlineSource(_)
InlineSource(elems) ==
    IF elems = <<>> THEN <<>>
    ELSE LET e == Head(elems)
             own == CASE e.Type = "text" -> e.Content
                      [] e.Type = "link" ->
                           <<"[", "[">> \o e.URL \o <<"]">>
                           \o (IF e.Children = <<>> THEN <<>>
                               ELSE <<"[">> \o InlineSource(e.Children) \o <<"]">>)
                           \o <<"]">>
                      [] OTHER -> <<MarkerOf(e.Type)>> \o e.Content \o InlineSource(e.Children)
                                  \o <<MarkerOf(e.Type)>>
         IN own \o InlineSource(Tail(elems))

\* the number of levels of children below a sequence of inline elements
RECURSIVE Nesting(_)
Nesting(elems) ==
    IF \A i \in DOMAIN elems : elems[i].Children = <<>> THEN 0
    ELSE 1 + MaxOf({Nesting(elems[i].Children) : i \in DOMAIN elems})

\* elems, the result of a call at the given depth, is one Text element without
\* children when the depth is beyond the cap, and so are, each at its depth,
\* the children of its elements
RECURSIVE CapRule(_, _)
CapRule(elems, depth) ==
    IF depth > maxDepth
    THEN Len(elems) = 1 /\ elems[1].Type = "text" /\ elems[1].Children = <<>>
    ELSE \A i \in DOMAIN elems :
            elems[i].Children # <<>> => CapRule(elems[i].Children, depth + 1)

\* C29: the inline sub-parser never decomposes a span at a depth beyond ten:
\* a call at a greater depth returns one Text element that holds the whole
\* span it was given, so no result nests deeper than the cap allows, whatever
\* the length of the text
C29_DepthCap ==
    inl.called =>
        /\ CapRule(inl.elems, inl.depth)
        /\ inl.depth > maxDepth => inl.elems = <<Inline("text", inl.text, <<>>, <<>>)>>
        /\ inl.depth + Nesting(inl.elems) <= maxDepth + 1
        /\ InlineSource(inl.elems) = inl.text

\* "*/+a+/*" given at depth 9: bold and italic are decomposed at depths 9 and
\* 10, and the span "+a+" reached at depth 11 is one Text element
C29_Witness ==
    /\ inl.called /\ inl.depth = maxDepth - 1
    /\ inl.text = <<"*", "/", "+", "a", "+", "/", "*">>
    /\ inl.elems = <<Inline("bold", <<>>, <<>>,
                       <<Inline("italic", <<>>, <<>>,
                           <<Inline("text", <<"+", "a", "+">>, <<>>, <<>>)>>)>>)>>

(***************************************************************************)
(* C30                                                                     *)
(***************************************************************************)

\* a text without the checkbox it begins with, white space before the box
\* allowed, and trimmed; the text itself when it begins with no checkbox
WithoutBox(text) ==
    LET t == TrimLeftSet(text, SpaceSet)
    IN IF BoxOf(t) = "None" THEN text ELSE TrimSpace(SubSeq(t, 4, Len(t)))

\* C30: the content of every list item, whatever its marker ("- ", "+ ",
\* "N. ", "N) ", indented or not), is the text that follows the marker with
\* the checkbox stripped; it never holds the marker, and it is empty when
\* nothing follows the marker
C30_MarkerStripped ==
    CompleteParse =>
        \A i \in ItemIds :
            /\ nodes[i].Content = WithoutBox(AfterMarker(nodes[i].Token.Literal))
            /\ AfterMarker(nodes[i].Token.Literal) = <<>> => nodes[i].Content = <<>>

\* the item "1. " has been parsed: nothing follows its marker, and its
\* content is "1."
C30_Witness ==
    /\ CompleteParse
    /\ lex.input = <<"1", ".", " ", NL>>
    /\ \E i \in ItemIds : nodes[i].Token.Literal = <<"1", ".", " ">> /\ nodes[i].Content = <<"1", ".">>

====
